---------------------------- MODULE Spec2Model ----------------------------
(***************************************************************************)
(* Post-processing pipeline of the scope generator: the line-item          *)
(* sanitizer (xactimateRules), the room deduplicator (roomSanitizer) and   *)
(* the logistics engine (logisticsEngine); and the rate limiter in front   *)
(* of the external API (rateLimiter).                                      *)
(*                                                                         *)
(* Text is modelled as a sequence of one-character strings, so that case   *)
(* conversion, stripping, trimming and substring tests are computed and    *)
(* not assumed.  Quantities are held in half-units (Q(n) is the quantity   *)
(* n): the only fraction the code produces is the 0.5 of equipHours.       *)
(***************************************************************************)
EXTENDS Integers, Sequences, FiniteSets, TLC

VARIABLES
    item,         \* sanitizer: the line item under sanitization
    prevItem,     \* sanitizer: the item before the latest sanitizeLineItem call
    origItem,     \* sanitizer: the item as first supplied
    nSan,         \* sanitizer: number of sanitizeLineItem calls made so far
    thrown,       \* sanitizer: the latest sanitizeLineItem call threw
    heap,         \* the room objects; a reference is an index into heap
    cur,          \* the room list the caller holds: references, in order
    job,          \* severity, context, lossType and jobType of the run
    pc,           \* "idle", or "loop" inside sanitizeRooms' merge loop
    budget,       \* calls the caller may still make
    nextId,       \* the next unused random identifier (crypto.randomUUID)
    generalRoom,  \* sanitizeRooms: reference of the room set aside, or NoRoom
    mergedRooms,  \* sanitizeRooms: the working list
    didMerge,     \* sanitizeRooms: the loop flag
    passes,       \* sanitizeRooms: passes started
    mergeCount,   \* sanitizeRooms: merges done
    warnings,     \* sanitizeRooms: the warnings, in order
    argRefs,      \* history: the list handed to the latest call
    heapAtCall,   \* history: the room objects as they were when it was made
    mergeLog,     \* history: the pairs handed to mergeRooms by the latest call
    lineage,      \* history: where each room of argRefs ended up, or NoRoom
    ops,          \* history: the calls completed, in order
    outs,         \* history: each completed call's returned rooms, by value
    queue,        \* rate limiter: the tasks waiting, in order (task numbers)
    isProcessing, \* rate limiter: the drain-loop flag
    lastCallTime, \* rate limiter: Date.now() at the latest task start
    now,          \* the clock, in milliseconds
    loops,        \* the processQueue invocations past the guard, each at an await
    nextTask,     \* the number of the next task to be enqueued
    started,      \* history: the tasks started, in order, with their start times
    outcome,      \* history: how each task's own promise settled
    promise       \* history: how each enqueue promise settled

itemVars == <<item, prevItem, origItem, nSan, thrown>>

roomVars == <<heap, cur, job, pc, budget, nextId, generalRoom, mergedRooms,
              didMerge, passes, mergeCount, warnings, argRefs, heapAtCall,
              mergeLog, lineage, ops, outs>>

limVars == <<queue, isProcessing, lastCallTime, now, loops, nextTask, started,
             outcome, promise>>

vars == <<itemVars, roomVars, limVars>>

--------------------------------------------------------------------------
(* Text helpers (JavaScript String methods)                                *)

Lowers == <<"a","b","c","d","e","f","g","h","i","j","k","l","m",
            "n","o","p","q","r","s","t","u","v","w","x","y","z">>
Uppers == <<"A","B","C","D","E","F","G","H","I","J","K","L","M",
            "N","O","P","Q","R","S","T","U","V","W","X","Y","Z">>
Digits == {"0","1","2","3","4","5","6","7","8","9"}

LowerSet == {Lowers[i] : i \in 1..26}
UpperSet == {Uppers[i] : i \in 1..26}

UpperChar(c) ==
    IF c \in LowerSet THEN Uppers[CHOOSE i \in 1..26 : Lowers[i] = c] ELSE c

LowerChar(c) ==
    IF c \in UpperSet THEN Lowers[CHOOSE i \in 1..26 : Uppers[i] = c] ELSE c

\* A sequence given by a function constructor, as the tuple of its elements
Arr(f) == <<>> \o f

ToUpperCase(s) == Arr([i \in 1..Len(s) |-> UpperChar(s[i])])

ToLowerCase(s) == Arr([i \in 1..Len(s) |-> LowerChar(s[i])])

IsSpace(c) == c = " "

RECURSIVE TrimStart(_)
TrimStart(s) ==
    IF s # <<>> /\ IsSpace(Head(s)) THEN TrimStart(Tail(s)) ELSE s

RECURSIVE TrimEnd(_)
TrimEnd(s) ==
    IF s # <<>> /\ IsSpace(s[Len(s)]) THEN TrimEnd(SubSeq(s, 1, Len(s) - 1)) ELSE s

Trim(s) == TrimEnd(TrimStart(s))

\* A variant that strips nothing
KeepAZ09_All(s) == s

\* s.replace(/[^A-Z0-9]/g, '')
KeepAZ09(s) == SelectSeq(s, LAMBDA c : c \in UpperSet \cup Digits)

\* s.replace(/[^A-Z0-9]/gi, '')
KeepAlnum(s) == SelectSeq(s, LAMBDA c : c \in UpperSet \cup LowerSet \cup Digits)

\* s.replace(/[^A-Z]/g, '')
KeepAZ(s) == SelectSeq(s, LAMBDA c : c \in UpperSet)

EndsWith(s, suf) ==
    /\ Len(suf) <= Len(s)
    /\ SubSeq(s, Len(s) - Len(suf) + 1, Len(s)) = suf

MatchAt(s, sub, i) ==
    /\ i + Len(sub) - 1 <= Len(s)
    /\ \A k \in 1..Len(sub) : s[i + k - 1] = sub[k]

Includes(s, sub) == \E i \in 1..(Len(s) + 1) : MatchAt(s, sub, i)

CountOcc(s, sub) == Cardinality({i \in 1..Len(s) : MatchAt(s, sub, i)})

--------------------------------------------------------------------------
(* catCodeData.ts                                                          *)

CAT_CODE_DICTIONARY ==
    { <<"W","T","R">>, <<"D","R","Y">>, <<"P","N","T">>, <<"F","C","C">>,
      <<"F","C","W">>, <<"F","C","V">>, <<"F","C","T">>, <<"F","N","C">>,
      <<"C","A","B">>, <<"D","O","R">>, <<"W","D","V">>, <<"R","F","G">>,
      <<"S","D","G">>, <<"F","R","M">>, <<"I","N","S">>, <<"P","L","A">>,
      <<"S","F","G">>, <<"E","L","E">>, <<"L","I","T">>, <<"P","L","M">>,
      <<"H","V","C">>, <<"A","P","P">>, <<"D","M","O">>, <<"C","L","N">>,
      <<"T","M","P">>, <<"H","M","R">>, <<"L","A","B">>, <<"S","C","F">>,
      <<"C","O","N">>, <<"F","E","E">> }

--------------------------------------------------------------------------
(* xactimateRules: sanitizeLineItem / enforceBusinessLogic                 *)

\* key |-> {cat, sel}
CODE_ALIASES ==
    { [key |-> <<"P","N","T"," ","W","A","L","L">>,
       cat |-> <<"P","N","T">>, sel |-> <<"P","2">>],
      [key |-> <<"P","N","T"," ","W","A","L","L","-">>,
       cat |-> <<"P","N","T">>, sel |-> <<"P","2">>],
      [key |-> <<"P","N","T"," ","C","E","I","L">>,
       cat |-> <<"P","N","T">>, sel |-> <<"C","E","I","L">>],
      [key |-> <<"F","C","C"," ","A","V","-">>,
       cat |-> <<"F","C","C">>, sel |-> <<"A","V">>],
      [key |-> <<"F","C","C"," ","P","A","D","-">>,
       cat |-> <<"F","C","C">>, sel |-> <<"P","A","D">>],
      [key |-> <<"W","T","R"," ","E","X","T","W">>,
       cat |-> <<"W","T","R">>, sel |-> <<"E","X","T","W">>],
      [key |-> <<"W","T","R"," ","G","R","D">>,
       cat |-> <<"W","T","R">>, sel |-> <<"G","R","D">>],
      [key |-> <<"F","L","R">>,
       cat |-> <<"F","C","C">>, sel |-> <<"A","V">>] }

AutoDowngraded == <<"A","u","t","o","-","D","o","w","n","g","r","a","d","e","d">>

\* ` (Auto-Downgraded: Code ${cleanCat} not in standard database)`
DowngradeMarker(cleanCat) ==
    <<" ","(","A","u","t","o","-","D","o","w","n","g","r","a","d","e","d",":",
      " ","C","o","d","e"," ">>
    \o cleanCat
    \o <<" ","n","o","t"," ","i","n"," ","s","t","a","n","d","a","r","d"," ",
         "d","a","t","a","b","a","s","e",")">>

\* A missing (undefined) field: no text, whose elements are single
\* characters, equals it.
Undefined == <<"undefined">>

\* `${x}`
Str(x) == IF x = Undefined THEN <<"u","n","d","e","f","i","n","e","d">> ELSE x

\* x || ''
OrEmpty(x) == IF x = Undefined THEN <<>> ELSE x

\* A variant without the confidence override
FinalConfidence_Keep(isValidCode, confidence) == confidence

\* 3. Confidence Override (Kill Switch)
FinalConfidence(isValidCode, confidence) ==
    IF isValidCode THEN confidence ELSE "Low"

enforceBusinessLogic(it) ==
    LET cleanCat == KeepAZ09(ToUpperCase(OrEmpty(it.category)))
        cleanSel == KeepAZ09(ToUpperCase(OrEmpty(it.selector)))
        isValidCode == cleanCat \in CAT_CODE_DICTIONARY
        finalConfidence == FinalConfidence(isValidCode, it.confidence)
        finalReasoning ==
            IF ~isValidCode /\ ~Includes(it.reasoning, AutoDowngraded)
            THEN Trim(it.reasoning \o DowngradeMarker(cleanCat))
            ELSE it.reasoning
    IN  [it EXCEPT !.category = cleanCat,
                   !.selector = cleanSel,
                   !.confidence = finalConfidence,
                   !.reasoning = finalReasoning]

\* CODE_ALIASES[combinedKey], as the set of the entries with that key
AliasHit(it) ==
    LET combinedKey ==
            Trim(ToUpperCase(Str(it.category) \o <<" ">> \o Str(it.selector)))
    IN  {a \in CODE_ALIASES : a.key = combinedKey}

\* selector.endsWith is a TypeError on a missing selector
sanitizeLineItemThrows(it) == AliasHit(it) = {} /\ it.selector = Undefined

\* The item returned, for an item on which the call does not throw
sanitizeLineItem(it) ==
    LET hit == AliasHit(it)
        alias == CHOOSE a \in hit : TRUE
        category1 == IF hit # {} THEN alias.cat ELSE it.category
        selector1 ==
            IF hit # {} THEN alias.sel
            ELSE IF EndsWith(it.selector, <<"-">>)
                 THEN SubSeq(it.selector, 1, Len(it.selector) - 1)
                 ELSE it.selector
        selector2 ==
            IF category1 = <<"P","N","T">>
               /\ (selector1 = <<"W","A","L","L">> \/ selector1 = <<"W">>)
            THEN <<"P","2">>
            ELSE selector1
    IN  enforceBusinessLogic([it EXCEPT !.category = category1,
                                        !.selector = selector2])

--------------------------------------------------------------------------
(* The data shapes of ../types and the constants shared by the components *)

\* Quantities are held in half-units.
Q(n) == 2 * n

\* `${cat} ${sel}`
Code(cat, sel) == cat \o <<" ">> \o sel

GeneralConditionsName ==
    <<"G","e","n","e","r","a","l"," ","C","o","n","d","i","t","i","o","n","s">>

--------------------------------------------------------------------------
(* Inputs: line items and rooms as the generator may emit them             *)

\* A line item; qty is in whole units.
MkItem(id, cat, sel, act, qty) ==
    [id |-> id, category |-> cat, selector |-> sel, code |-> Code(cat, sel),
     description |-> <<>>, activity |-> act, quantity |-> Q(qty),
     quantity_inference |-> "", unit |-> "SF",
     reasoning |-> <<>>, confidence |-> "High"]

\* The room built from template t at position p of the list, with room id
\* `id`; its items get ids unique in the list.
MkRoom(t, p, id) ==
    [id |-> id, name |-> t.name,
     timestamp_in |-> t.ts, timestamp_out |-> "",
     narrative_synthesis |-> t.narrative,
     flagged_issues |-> t.flags,
     items |-> Arr([k \in 1..Len(t.items) |->
                   MkItem(10 * p + k, t.items[k][1], t.items[k][2],
                          t.items[k][3], t.items[k][4])])]

Tpl(name, items, narrative, flags, ts) ==
    [name |-> name, items |-> items, narrative |-> narrative, flags |-> flags,
     ts |-> ts]

ItemDry == << <<"D","R","Y">>, <<"1","2">>, "+", 40 >>
ItemDryMore == << <<"D","R","Y">>, <<"1","2">>, "+", 48 >>
ItemDryLarge == << <<"D","R","Y">>, <<"1","2">>, "+", 60 >>
ItemPaint == << <<"P","N","T">>, <<"P","2">>, "+", 40 >>
ItemCarpet == << <<"F","C","C">>, <<"A","V">>, "+", 40 >>
ItemCarpetDash == << <<"F","C","C">>, <<"A","V","-">>, "+", 45 >>
ItemPad == << <<"F","C","C">>, <<"P","A","D">>, "+", 40 >>

Wet == <<"w","e","t">>

DedupPool ==
    { Tpl(<<"B","a","t","h","r","o","o","m"," ","2">>,
          <<ItemDry, ItemPaint, ItemCarpet>>, Wet, <<"mold">>, ""),
      Tpl(<<"B","a","t","h","r","o","o","m"," ","3">>,
          <<ItemDryMore, ItemPaint, ItemCarpet, ItemPad>>, Wet, <<"leak">>, "00:10"),
      Tpl(<<"M","a","s","t","e","r"," ","B","a","t","h">>,
          <<ItemPaint, ItemCarpetDash, ItemPad>>, <<>>, <<>>, ""),
      Tpl(<<"K","i","t","c","h","e","n">>,
          <<ItemDry, ItemPaint, ItemCarpet>>, <<>>, <<>>, ""),
      Tpl(GeneralConditionsName, <<>>, <<>>, <<>>, ""),
      Tpl(<<"L","o","g","i","s","t","i","c","s">>, <<>>, <<>>, <<>>, ""),
      Tpl(<<"A","t","t","i","c">>, <<>>, <<>>, <<>>, ""),
      Tpl(<<"a","t","t","i","c"," ","2">>, <<>>, Wet, <<>>, ""),
      Tpl(<<"2"," ","C","o","n","d","i","t","i","o","n","s">>, <<>>, <<>>, <<>>, "") }

MergePool ==
    DedupPool \cup
    { Tpl(<<"B","a","t","h","r","o","o","m">>,
          <<ItemDry, ItemDryLarge, ItemCarpetDash>>, <<>>, <<"mold">>, "00:20"),
      Tpl(<<"B","a","t","h"," ","1","0">>,
          <<ItemDryLarge, ItemDry, ItemPad>>, Wet \o <<" ">>, <<>>, ""),
      Tpl(<<"F","l","o","o","r"," ","2"," ","B","a","t","h","r","o","o","m",
            " ","1">>,
          <<ItemDry, ItemPaint, ItemCarpet>>, Wet, <<>>, "") }

ItemDemoDry == << <<"D","R","Y">>, <<"1","2">>, "-", 400 >>
ItemDemoSmall == << <<"D","R","Y">>, <<"1","2">>, "-", 100 >>
ItemCarpetBig == << <<"F","C","C">>, <<"A","V">>, "+", 110 >>
ItemCabinet == << <<"C","A","B">>, <<"L","O","W">>, "+", 2 >>
ItemDehu == << <<"W","T","R">>, <<"D","H","M","-">>, "+", 3 >>
ItemBarrier == << <<"W","T","R">>, <<"B","A","R","R">>, "+", 150 >>

LogPool ==
    { Tpl(<<"K","i","t","c","h","e","n">>,
          <<ItemDemoDry, ItemCarpetBig, ItemCabinet>>, Wet, <<>>, ""),
      Tpl(<<"B","e","d","r","o","o","m">>, <<ItemDehu>>, <<>>, <<>>, ""),
      Tpl(<<"H","a","l","l">>, <<ItemDemoSmall>>, <<>>, <<>>, ""),
      Tpl(<<"A","t","t","i","c">>, <<>>, <<>>, <<>>, ""),
      Tpl(GeneralConditionsName, <<>>, <<>>, <<>>, ""),
      Tpl(GeneralConditionsName, <<ItemBarrier>>, <<>>, <<>>, ""),
      Tpl(<<"S","i","t","e"," ","L","o","g","i","s","t","i","c","s">>,
          <<ItemPaint, ItemPad, ItemCabinet>>, <<>>, <<>>, "") }

\* Rooms whose demolition totals meet at and around 500: 400 and 100
\* explicit, 101 and 50 implicit, 1 explicit; and a General Conditions room
\* that already holds a pickup load.
DebrisPool ==
    { Tpl(<<"K","i","t","c","h","e","n">>, <<ItemDemoDry>>, Wet, <<>>, ""),
      Tpl(<<"H","a","l","l">>, <<ItemDemoSmall>>, <<>>, <<>>, ""),
      Tpl(<<"D","e","n">>,
          << << <<"F","C","C">>, <<"A","V">>, "+", 101 >> >>, <<>>, <<>>, ""),
      Tpl(<<"P","o","r","c","h">>,
          << << <<"D","R","Y">>, <<"1","2">>, "+", 50 >>,
             << <<"F","C","T">>, <<"A","V">>, "+", 50 >> >>, <<>>, <<>>, ""),
      Tpl(<<"C","l","o","s","e","t">>,
          << << <<"D","R","Y">>, <<"1","2">>, "-", 1 >> >>, <<>>, <<>>, ""),
      Tpl(<<"A","t","t","i","c">>, <<ItemPaint>>, <<>>, <<>>, ""),
      Tpl(GeneralConditionsName,
          << << <<"D","M","O">>, <<"D","B","R">>, "+", 1 >> >>, <<>>, <<>>, ""),
      Tpl(GeneralConditionsName, <<ItemBarrier>>, <<>>, <<>>, "") }

\* Three bedrooms of four, five and six items, each list a prefix of the
\* next (similarity 4/5 and 5/6 between neighbours, 4/6 between the first
\* and the last), and a room of another bucket.
ReviewPool ==
    { Tpl(<<"B","e","d","r","o","o","m"," ","1">>,
          <<ItemDry, ItemPaint, ItemCarpet, ItemPad>>, <<>>, <<>>, ""),
      Tpl(<<"B","e","d","r","o","o","m"," ","2">>,
          <<ItemDry, ItemPaint, ItemCarpet, ItemPad, ItemCabinet>>, <<>>, <<>>, ""),
      Tpl(<<"B","e","d","r","o","o","m"," ","3">>,
          <<ItemDry, ItemPaint, ItemCarpet, ItemPad, ItemCabinet, ItemDehu>>,
          <<>>, <<>>, ""),
      Tpl(<<"K","i","t","c","h","e","n">>, <<ItemDry, ItemPaint>>, <<>>, <<>>, "") }

PipePool ==
    { Tpl(<<"B","a","t","h","r","o","o","m"," ","2">>,
          <<ItemDry, ItemPaint, ItemCarpet>>, Wet, <<>>, ""),
      Tpl(<<"B","a","t","h","r","o","o","m"," ","3">>,
          <<ItemDryMore, ItemPaint, ItemCarpet, ItemPad>>, Wet, <<>>, ""),
      Tpl(<<"A","t","t","i","c">>, <<>>, <<>>, <<>>, ""),
      Tpl(GeneralConditionsName, <<ItemBarrier>>, <<>>, <<>>, ""),
      Tpl(<<"L","o","g","i","s","t","i","c","s">>, <<>>, <<>>, <<>>, "") }

Jobs(severities, contexts, lossTypes, jobTypes) ==
    { [severity |-> sv, context |-> cx, lossType |-> lt, jobType |-> jt] :
        sv \in severities, cx \in contexts, lt \in lossTypes, jt \in jobTypes }

LogJobs ==
    Jobs({4, 5, 9}, {"Interior", "Exterior"},
         { <<"W","a","t","e","r">>, <<"F","i","r","e">>, <<"S","M","O","K","E">> },
         {"R", "E"})

DebrisJobs ==
    Jobs({4, 5}, {"Interior"},
         { <<"W","a","t","e","r">>, <<"B","l","a","c","k"," ","M","o","l","d">>,
           <<"S","E","W","A","G","E">> }, {"R", "E"})

PipeJobs ==
    Jobs({4, 9}, {"Interior"}, { <<"W","a","t","e","r">> }, {"R", "E"})

NoJob == [severity |-> 1, context |-> "Interior",
          lossType |-> <<"W","a","t","e","r">>, jobType |-> "R"]

\* Room ids: "distinct" gives every room its own; "shared" gives every
\* room after the first the id of the second.
RoomId(mode, p) == IF mode = "shared" /\ p > 2 THEN 2 ELSE p

MaxDedupRooms == 3
MaxLogRooms == 2
MaxPipeRooms == 2
MaxLogCalls == 2
MaxPipeCalls == 2
MaxDebrisRooms == 2
MaxReviewRooms == 3
MaxDebrisCalls == 1

--------------------------------------------------------------------------
(* The sanitizer's inputs                                                 *)

MaxSanitize == 3

RawCategories ==
    { <<"P","N","T">>, <<"p","n","t">>, <<"P","-","N","T">>, <<"F","L","R">>,
      <<"F","C","C">>, <<"W","T","R">>, <<"X","Y","Z">>, <<"w","t","r"," ">>,
      <<>>, <<"-">>, Undefined }

RawSelectors ==
    { <<"W","A","L","L">>, <<"W","A","L","L","-">>, <<"W","A","L","L","-","-">>,
      <<"w","a","l","l">>, <<"W">>, <<"P","2">>, <<"C","E","I","L">>,
      <<"A","V","-">>, <<"P","A","D","-","-">>, <<"E","X","T","W">>,
      <<"1","/","2">>, <<>>, <<"-">>, Undefined }

RawReasonings ==
    { <<>>,
      <<"w","e","t">>,
      <<" ","w","e","t"," ">>,
      <<"w","a","s"," ">> \o AutoDowngraded }

Confidences == {"High", "Medium", "Low"}

RawItems ==
    { [MkItem(1, c, s, "+", 1) EXCEPT !.code = Code(Str(c), Str(s)),
                                      !.confidence = k, !.reasoning = r] :
        c \in RawCategories, s \in RawSelectors,
        k \in Confidences, r \in RawReasonings }

--------------------------------------------------------------------------
(* roomSanitizer.ts: helper functions                                      *)

SIMILARITY_THRESHOLD_NUM == 3   \* 0.75 = 3 / 4
SIMILARITY_THRESHOLD_DEN == 4
MAX_MERGE_PASSES == 5
NARRATIVE_CAP == 250

\* Each pattern's alternatives; an alternative is its literal parts, which
\* the regular expression joins by \s*.  An optional group, (room)? or
\* (way)?, never decides RegExp.test and is left out.
ROOM_TYPE_PATTERNS ==
    << [type |-> <<"b","a","t","h","r","o","o","m">>,
        alts |-> { << <<"b","a","t","h">> >>, << <<"p","o","w","d","e","r">> >>,
                   << <<"r","e","s","t","r","o","o","m">> >>, << <<"w","c">> >>,
                   << <<"l","a","v","a","t","o","r","y">> >>,
                   << <<"h","a","l","f">>, <<"b","a","t","h">> >> }],
       [type |-> <<"b","e","d","r","o","o","m">>,
        alts |-> { << <<"b","e","d">> >>, << <<"m","a","s","t","e","r">> >>,
                   << <<"g","u","e","s","t">>, <<"r","o","o","m">> >>,
                   << <<"n","u","r","s","e","r","y">> >> }],
       [type |-> <<"k","i","t","c","h","e","n">>,
        alts |-> { << <<"k","i","t","c","h","e","n">> >>,
                   << <<"k","i","t","c","h","e","n","e","t","t","e">> >> }],
       [type |-> <<"l","i","v","i","n","g">>,
        alts |-> { << <<"l","i","v","i","n","g">> >>, << <<"f","a","m","i","l","y">> >>,
                   << <<"g","r","e","a","t">>, <<"r","o","o","m">> >>,
                   << <<"d","e","n">> >>, << <<"l","o","u","n","g","e">> >> }],
       [type |-> <<"l","a","u","n","d","r","y">>,
        alts |-> { << <<"l","a","u","n","d","r","y">> >>,
                   << <<"u","t","i","l","i","t","y">> >>,
                   << <<"m","u","d">>, <<"r","o","o","m">> >> }],
       [type |-> <<"h","a","l","l","w","a","y">>,
        alts |-> { << <<"h","a","l","l">> >>, << <<"c","o","r","r","i","d","o","r">> >>,
                   << <<"p","a","s","s","a","g","e">> >>, << <<"f","o","y","e","r">> >>,
                   << <<"e","n","t","r","y">> >> }],
       [type |-> <<"g","a","r","a","g","e">>,
        alts |-> { << <<"g","a","r","a","g","e">> >>,
                   << <<"c","a","r","p","o","r","t">> >> }],
       [type |-> <<"b","a","s","e","m","e","n","t">>,
        alts |-> { << <<"b","a","s","e","m","e","n","t">> >>,
                   << <<"c","e","l","l","a","r">> >>,
                   << <<"l","o","w","e","r">>, <<"l","e","v","e","l">> >> }],
       [type |-> <<"o","f","f","i","c","e">>,
        alts |-> { << <<"o","f","f","i","c","e">> >>, << <<"s","t","u","d","y">> >>,
                   << <<"h","o","m","e">>, <<"o","f","f","i","c","e">> >>,
                   << <<"w","o","r","k","s","p","a","c","e">> >> }],
       [type |-> <<"d","i","n","i","n","g">>,
        alts |-> { << <<"d","i","n","i","n","g">> >>,
                   << <<"b","r","e","a","k","f","a","s","t">>, <<"n","o","o","k">> >> }],
       [type |-> <<"c","l","o","s","e","t">>,
        alts |-> { << <<"c","l","o","s","e","t">> >>, << <<"s","t","o","r","a","g","e">> >>,
                   << <<"p","a","n","t","r","y">> >>,
                   << <<"w","a","r","d","r","o","b","e">> >> }] >>

RECURSIVE MatchPartsAt(_, _, _)
MatchPartsAt(s, parts, i) ==
    IF parts = <<>> THEN TRUE
    ELSE /\ MatchAt(s, Head(parts), i)
         /\ LET nxt == i + Len(Head(parts))
            IN  \/ Tail(parts) = <<>>
                \/ \E k \in 0..(Len(s) + 1 - nxt) :
                      /\ \A m \in nxt..(nxt + k - 1) : IsSpace(s[m])
                      /\ MatchPartsAt(s, Tail(parts), nxt + k)

\* pattern.test(s)
PatternTest(alts, s) ==
    \E a \in alts : \E i \in 1..(Len(s) + 1) : MatchPartsAt(s, a, i)

\* s.split(/[\s\d]+/)[0]
RECURSIVE FirstToken(_)
FirstToken(s) ==
    IF s = <<>> \/ IsSpace(Head(s)) \/ Head(s) \in Digits THEN <<>>
    ELSE <<Head(s)>> \o FirstToken(Tail(s))

extractRoomType(name) ==
    LET normalized == Trim(ToLowerCase(name))
        hits == {k \in 1..Len(ROOM_TYPE_PATTERNS) :
                    PatternTest(ROOM_TYPE_PATTERNS[k].alts, normalized)}
        first == CHOOSE k \in hits : \A m \in hits : k <= m
        token == FirstToken(normalized)
    IN  IF hits # {} THEN ROOM_TYPE_PATTERNS[first].type
        ELSE IF token # <<>> THEN token
        ELSE <<"u","n","k","n","o","w","n">>

KnownNames ==
    {t.name : t \in DedupPool \cup MergePool \cup LogPool \cup PipePool
                     \cup ReviewPool}

\* extractRoomType, computed once for each name the inputs use
RoomTypeMemo == {<<n, extractRoomType(n)>> : n \in KnownNames}

RoomTypeOf(name) ==
    IF name \in KnownNames
    THEN (CHOOSE e \in RoomTypeMemo : e[1] = name)[2]
    ELSE extractRoomType(name)

DigitSeq == <<"0","1","2","3","4","5","6","7","8","9">>

DigitVal(c) == (CHOOSE i \in 1..10 : DigitSeq[i] = c) - 1

\* parseInt of the digit run that starts s
RECURSIVE ParseDigits(_, _)
ParseDigits(s, acc) ==
    IF s # <<>> /\ Head(s) \in Digits
    THEN ParseDigits(Tail(s), 10 * acc + DigitVal(Head(s)))
    ELSE acc

NO_ROOM_NUMBER == 999

\* name.match(/\d+/): the first run of digits
extractRoomNumber(name) ==
    LET at == {i \in 1..Len(name) : name[i] \in Digits}
        first == CHOOSE i \in at : \A m \in at : i <= m
    IN  IF at = {} THEN NO_ROOM_NUMBER
        ELSE ParseDigits(SubSeq(name, first, Len(name)), 0)

\* UTF-16 code-unit order of the characters in use (Array.prototype.sort)
CharOrder ==
    <<" ","(",")","-",".","/">> \o DigitSeq \o <<":">> \o Uppers \o Lowers

CharRank(c) == CHOOSE i \in 1..Len(CharOrder) : CharOrder[i] = c

RECURSIVE StrLess(_, _)
StrLess(a, b) ==
    IF b = <<>> THEN FALSE
    ELSE IF a = <<>> THEN TRUE
    ELSE IF Head(a) = Head(b) THEN StrLess(Tail(a), Tail(b))
    ELSE CharRank(Head(a)) < CharRank(Head(b))

RECURSIVE InsertSorted(_, _)
InsertSorted(sorted, x) ==
    IF sorted = <<>> THEN <<x>>
    ELSE IF StrLess(x, Head(sorted)) THEN <<x>> \o sorted
    ELSE <<Head(sorted)>> \o InsertSorted(Tail(sorted), x)

RECURSIVE SortStrings(_)
SortStrings(xs) ==
    IF xs = <<>> THEN <<>> ELSE InsertSorted(SortStrings(Tail(xs)), Head(xs))

QtyBucket(quantity) ==
    IF quantity <= Q(10) THEN <<"S">>
    ELSE IF quantity <= Q(50) THEN <<"M">>
    ELSE IF quantity <= Q(100) THEN <<"L">>
    ELSE IF quantity <= Q(500) THEN <<"X","L">>
    ELSE <<"X","X","L">>

generateItemSignature(items) ==
    SortStrings(Arr([i \in 1..Len(items) |->
        items[i].category \o <<":">>
        \o ToUpperCase(KeepAlnum(items[i].selector)) \o <<":">>
        \o QtyBucket(items[i].quantity)]))

Range(seq) == {seq[i] : i \in 1..Len(seq)}

\* A variant that divides by the size of the first signature set
calculateJaccardSimilarity_OverFirst(items1, items2) ==
    IF Len(items1) = 0 /\ Len(items2) = 0 THEN <<1, 1>>
    ELSE IF Len(items1) = 0 \/ Len(items2) = 0 THEN <<0, 1>>
    ELSE LET sig1 == Range(generateItemSignature(items1))
             sig2 == Range(generateItemSignature(items2))
         IN  <<Cardinality(sig1 \cap sig2), Cardinality(sig1)>>

\* The coefficient as the fraction <<|intersection|, |union|>>
calculateJaccardSimilarity(items1, items2) ==
    IF Len(items1) = 0 /\ Len(items2) = 0 THEN <<1, 1>>
    ELSE IF Len(items1) = 0 \/ Len(items2) = 0 THEN <<0, 1>>
    ELSE LET sig1 == Range(generateItemSignature(items1))
             sig2 == Range(generateItemSignature(items2))
         IN  <<Cardinality(sig1 \cap sig2), Cardinality(sig1 \cup sig2)>>

\* similarity >= SIMILARITY_THRESHOLD
AtLeastThreshold(sim) ==
    sim[1] * SIMILARITY_THRESHOLD_DEN >= SIMILARITY_THRESHOLD_NUM * sim[2]

isGeneral(name) ==
    \/ Includes(ToLowerCase(name), <<"g","e","n","e","r","a","l">>)
    \/ Includes(ToLowerCase(name), <<"l","o","g","i","s","t","i","c","s">>)
    \/ Includes(ToLowerCase(name), <<"c","o","n","d","i","t","i","o","n">>)

\* A variant without RULE 1, the room-type pre-filter
areLikelyDuplicates_AnyBucket(room1, room2) ==
    AtLeastThreshold(calculateJaccardSimilarity(room1.items, room2.items))

areLikelyDuplicates(room1, room2) ==
    LET type1 == RoomTypeOf(room1.name)
        type2 == RoomTypeOf(room2.name)
    IN  IF type1 # type2 THEN FALSE
        ELSE IF type1 = <<"u","n","k","n","o","w","n">>
                /\ (isGeneral(room1.name) \/ isGeneral(room2.name))
        THEN FALSE
        ELSE AtLeastThreshold(calculateJaccardSimilarity(room1.items, room2.items))

MergeKey(it) == it.category \o <<":">> \o it.selector

\* A variant that always keeps the first copy of a key
HigherQuantity_KeepFirst(it, existing) == FALSE

\* item.quantity > existing.quantity: the later copy replaces the kept one
HigherQuantity(it, existing) == it.quantity > existing.quantity

\* The forEach over allItems, on an insertion-ordered Map held as a sequence
\* of <<key, item>>; `fresh` is the next unused random identifier.
RECURSIVE MergeItems(_, _, _)
MergeItems(allItems, itemMap, fresh) ==
    IF allItems = <<>> THEN [map |-> itemMap, fresh |-> fresh]
    ELSE LET it == Head(allItems)
             key == MergeKey(it)
             at == {k \in 1..Len(itemMap) : itemMap[k][1] = key}
             pos == CHOOSE k \in at : TRUE
         IN  IF at = {}
             THEN MergeItems(Tail(allItems),
                             Append(itemMap, <<key, [it EXCEPT !.id = fresh]>>),
                             fresh + 1)
             ELSE IF HigherQuantity(it, itemMap[pos][2])
             THEN MergeItems(Tail(allItems),
                             [itemMap EXCEPT ![pos] =
                                 <<key, [it EXCEPT !.id = itemMap[pos][2].id]>>],
                             fresh)
             ELSE MergeItems(Tail(allItems), itemMap, fresh)

\* [...new Set(xs)]
RECURSIVE Dedupe(_)
Dedupe(xs) ==
    IF xs = <<>> THEN <<>>
    ELSE LET init == Dedupe(SubSeq(xs, 1, Len(xs) - 1))
             last == xs[Len(xs)]
         IN  IF last \in Range(init) THEN init ELSE Append(init, last)

\* [a, b].filter((n, i, arr) => n && n.trim() && arr.indexOf(n) === i).join(' ')
JoinNarratives(a, b) ==
    LET keepA == Trim(a) # <<>>
        keepB == Trim(b) # <<>> /\ b # a
    IN  IF keepA /\ keepB THEN a \o <<" ">> \o b
        ELSE IF keepA THEN a
        ELSE IF keepB THEN b
        ELSE <<>>

\* The merged room and the next unused identifier.  "" is a missing timestamp.
mergeRooms(room1, room2, fresh) ==
    LET num1 == extractRoomNumber(room1.name)
        num2 == extractRoomNumber(room2.name)
        primaryRoom == IF num1 <= num2 THEN room1 ELSE room2
        secondaryRoom == IF num1 <= num2 THEN room2 ELSE room1
        merged == MergeItems(primaryRoom.items \o secondaryRoom.items, <<>>, fresh)
        narrative == JoinNarratives(primaryRoom.narrative_synthesis,
                                    secondaryRoom.narrative_synthesis)
    IN  [room |->
            [id |-> primaryRoom.id,
             name |-> primaryRoom.name,
             timestamp_in |-> IF primaryRoom.timestamp_in # ""
                              THEN primaryRoom.timestamp_in
                              ELSE secondaryRoom.timestamp_in,
             timestamp_out |-> IF primaryRoom.timestamp_out # ""
                               THEN primaryRoom.timestamp_out
                               ELSE secondaryRoom.timestamp_out,
             narrative_synthesis |->
                SubSeq(narrative, 1,
                       IF Len(narrative) < NARRATIVE_CAP THEN Len(narrative)
                       ELSE NARRATIVE_CAP),
             flagged_issues |-> Dedupe(primaryRoom.flagged_issues
                                       \o secondaryRoom.flagged_issues),
             items |-> Arr([k \in 1..Len(merged.map) |-> merged.map[k][2]])],
         fresh |-> merged.fresh]

--------------------------------------------------------------------------
(* roomSanitizer.ts: detectHallucinationPatterns and sanitizeRooms         *)

NoRoom == 0

RECURSIVE Flatten(_)
Flatten(seqs) ==
    IF seqs = <<>> THEN <<>> ELSE Head(seqs) \o Flatten(Tail(seqs))

\* Math.round(similarity * 100)
RoundPercent(sim) == (200 * sim[1] + sim[2]) \div (2 * sim[2])

\* typeThresholds[type], 0 when the type has none
TypeThreshold(type) ==
    IF type = <<"b","a","t","h","r","o","o","m">> THEN 3
    ELSE IF type \in { <<"k","i","t","c","h","e","n">>,
                       <<"l","a","u","n","d","r","y">>,
                       <<"g","a","r","a","g","e">> } THEN 2
    ELSE 0

\* sim > 0.6 && sim < SIMILARITY_THRESHOLD
InReviewBand(sim) == 5 * sim[1] > 3 * sim[2] /\ ~AtLeastThreshold(sim)

NoVisibleDamage == <<"N","o"," ","V","i","s","i","b","l","e"," ","D","a","m","a","g","e">>

InspectedPrefix ==
    <<"I","n","s","p","e","c","t","e","d"," ","-"," ">> \o NoVisibleDamage \o <<"."," ">>

\* The warnings, and the room objects after the in-place narrative update.
detectHallucinationPatterns(h, rooms) ==
    LET typeOf(r) == RoomTypeOf(h[r].name)
        types == Dedupe(Arr([i \in 1..Len(rooms) |-> typeOf(rooms[i])]))
        typeRooms(t) == SelectSeq(rooms, LAMBDA r : typeOf(r) = t)
        countWarnings ==
            Flatten(Arr([k \in 1..Len(types) |->
                IF TypeThreshold(types[k]) > 0
                   /\ Len(typeRooms(types[k])) > TypeThreshold(types[k])
                THEN << [kind |-> "count", n |-> Len(typeRooms(types[k])),
                         type |-> types[k]] >>
                ELSE <<>>]))
        pairWarnings(tr) ==
            Flatten(Arr([i \in 1..Len(tr) |->
                Flatten(Arr([d \in 1..(Len(tr) - i) |->
                    LET sim == calculateJaccardSimilarity(h[tr[i]].items,
                                                          h[tr[i + d]].items)
                    IN  IF InReviewBand(sim)
                        THEN << [kind |-> "similar", a |-> h[tr[i]].name,
                                 b |-> h[tr[i + d]].name,
                                 aRef |-> tr[i], bRef |-> tr[i + d],
                                 pct |-> RoundPercent(sim)] >>
                        ELSE <<>>]))]))
        similarWarnings ==
            Flatten(Arr([k \in 1..Len(types) |-> pairWarnings(typeRooms(types[k]))]))
        emptyRooms ==
            SelectSeq(rooms, LAMBDA r :
                /\ Len(h[r].items) = 0
                /\ ~Includes(ToLowerCase(h[r].name), <<"g","e","n","e","r","a","l">>))
        marked ==
            [r \in DOMAIN h |->
                IF r \in Range(emptyRooms)
                   /\ ~Includes(h[r].narrative_synthesis, NoVisibleDamage)
                THEN [h[r] EXCEPT !.narrative_synthesis = InspectedPrefix \o @]
                ELSE h[r]]
        emptyWarnings ==
            IF Len(emptyRooms) > 0
            THEN << [kind |-> "empty", n |-> Len(emptyRooms),
                     names |-> Arr([i \in 1..Len(emptyRooms) |-> h[emptyRooms[i]].name])] >>
            ELSE <<>>
    IN  [warnings |-> countWarnings \o similarWarnings \o emptyWarnings,
         heap |-> marked]

\* rooms.find(r => name contains 'general' or 'logistics')
IsGeneralLower(name) ==
    \/ Includes(ToLowerCase(name), <<"g","e","n","e","r","a","l">>)
    \/ Includes(ToLowerCase(name), <<"l","o","g","i","s","t","i","c","s">>)

FindGeneralRoom(h, rooms) ==
    LET at == {i \in 1..Len(rooms) : IsGeneralLower(h[rooms[i]].name)}
    IN  IF at = {} THEN NoRoom
        ELSE rooms[CHOOSE i \in at : \A m \in at : i <= m]

\* The inner for-loop over j, from index j on.  st holds the loop's state:
\* heap, fresh, current, consumed, warnings, mergeCount, didMerge, and the
\* history log and lineage.
RECURSIVE InnerLoop(_, _, _, _)
InnerLoop(rooms, i, j, st) ==
    IF j > Len(rooms) THEN st
    ELSE IF st.heap[rooms[j]].id \in st.consumed THEN InnerLoop(rooms, i, j + 1, st)
    ELSE IF areLikelyDuplicates(st.heap[st.current], st.heap[rooms[j]])
    THEN LET cur0 == st.heap[st.current]
             other == st.heap[rooms[j]]
             similarity == calculateJaccardSimilarity(cur0.items, other.items)
             m == mergeRooms(cur0, other, st.fresh)
             ref == Len(st.heap) + 1
         IN  InnerLoop(rooms, i, j + 1,
                [st EXCEPT
                    !.warnings = Append(@, [kind |-> "merged",
                                            a |-> st.heap[rooms[i]].name,
                                            b |-> other.name,
                                            pct |-> RoundPercent(similarity),
                                            into |-> cur0.name]),
                    !.heap = Append(@, m.room),
                    !.fresh = m.fresh,
                    !.current = ref,
                    !.consumed = @ \cup {other.id},
                    !.didMerge = TRUE,
                    !.mergeCount = @ + 1,
                    !.log = Append(@, [a |-> cur0, b |-> other, result |-> m.room]),
                    !.lineage = [r \in DOMAIN @ |->
                                    IF @[r] \in {st.current, rooms[j]} THEN ref
                                    ELSE @[r]]])
    ELSE InnerLoop(rooms, i, j + 1, st)

\* The outer for-loop over i, from index i on; st.newMerged is the result.
RECURSIVE OuterLoop(_, _, _)
OuterLoop(rooms, i, st) ==
    IF i > Len(rooms) THEN st
    ELSE IF st.heap[rooms[i]].id \in st.consumed
    THEN OuterLoop(rooms, i + 1,
            [st EXCEPT !.lineage = [r \in DOMAIN @ |->
                                       IF @[r] = rooms[i] THEN NoRoom ELSE @[r]]])
    ELSE LET inner == InnerLoop(rooms, i, i + 1, [st EXCEPT !.current = rooms[i]])
             \* a later room left unmerged whose id is consumed is skipped
         IN  OuterLoop(rooms, i + 1,
                [inner EXCEPT !.consumed = @ \cup {st.heap[rooms[i]].id},
                              !.newMerged = Append(@, inner.current)])

--------------------------------------------------------------------------
(* logisticsEngine.ts                                                      *)

\* ActivityCode.REMOVE of ../types
ActivityCode_REMOVE == "-"

LogisticsReasoning ==
    <<"L","o","g","i","s","t","i","c","s"," ","E","n","g","i","n","e"," ","R","u",
      "l","e",":"," ","C","a","l","c","u","l","a","t","e","d"," ","b","a","s","e",
      "d"," ","o","n"," ","s","c","o","p","e"," ","v","o","l","u","m","e","/","c",
      "o","m","p","l","e","x","i","t","y",".">>

createLogisticsItem(id, cat, sel, desc, qty, unit) ==
    [id |-> id, category |-> cat, selector |-> sel, code |-> Code(cat, sel),
     description |-> desc, activity |-> "+", quantity |-> qty,
     quantity_inference |-> "Auto-Calculated", unit |-> unit,
     reasoning |-> LogisticsReasoning, confidence |-> "High"]

GeneralConditionsNarrative ==
    <<"L","o","g","i","s","t","i","c","s"," ","a","n","d"," ","p","r","o","j","e",
      "c","t"," ","m","a","n","a","g","e","m","e","n","t"," ","i","t","e","m","s",
      " ","i","n","f","e","r","r","e","d"," ","f","r","o","m"," ","s","c","o","p",
      "e"," ","s","e","v","e","r","i","t","y"," ","a","n","d"," ","c","o","m","p",
      "l","e","x","i","t","y",".">>

\* newRooms.findIndex(r => name contains 'GENERAL' or 'LOGISTICS'); 0 for -1
FindGeneralIndex(h, rooms) ==
    LET at == {i \in 1..Len(rooms) :
                  \/ Includes(ToUpperCase(h[rooms[i]].name),
                              <<"G","E","N","E","R","A","L">>)
                  \/ Includes(ToUpperCase(h[rooms[i]].name),
                              <<"L","O","G","I","S","T","I","C","S">>)}
    IN  IF at = {} THEN 0 ELSE CHOOSE i \in at : \A m \in at : i <= m

RECURSIVE SumSeq(_)
SumSeq(xs) == IF xs = <<>> THEN 0 ELSE Head(xs) + SumSeq(Tail(xs))

CeilDiv(a, b) == (a + b - 1) \div b

Max(a, b) == IF a >= b THEN a ELSE b

EquipmentSelectors ==
    { <<"D","H","U">>, <<"D","R","Y">>, <<"D","H","M">>, <<"A","F","A","N">> }

\* i.category === 'WTR' && [...].includes(i.selector.replace(/[^A-Z]/g, ''))
IsEquipment(it) ==
    it.category = <<"W","T","R">> /\ KeepAZ(it.selector) \in EquipmentSelectors

\* --- DATA GATHERING --- over the rooms handed in (the parameter `rooms`)
AllItems(h, rooms) == Flatten(Arr([i \in 1..Len(rooms) |-> h[rooms[i]].items]))

\* What one item adds to totalDemoQty in the forEach
ExplicitDemoOf(it) ==
    IF \/ it.activity = "-"
       \/ it.activity = ActivityCode_REMOVE
       \/ it.category = <<"D","M","O">>
       \/ it.category = <<"D","M","G">>
    THEN it.quantity ELSE 0

ExplicitDemoQty(h, rooms) ==
    LET items == AllItems(h, rooms)
    IN  SumSeq(Arr([i \in 1..Len(items) |-> ExplicitDemoOf(items[i])]))

\* What one item adds to implicitDemoQty in the forEach
ImplicitDemoOf(it) ==
    (IF it.category \in { <<"F","C","W">>, <<"F","C","V">>,
                          <<"F","C","C">>, <<"F","C","T">> }
        /\ it.activity = "+" THEN it.quantity ELSE 0)
    + (IF it.category = <<"D","R","Y">> /\ it.activity = "+"
       THEN it.quantity ELSE 0)
    + (IF it.category = <<"C","A","B">> /\ it.activity = "+"
       THEN Q(20) ELSE 0)

ImplicitDemoQty(h, rooms) ==
    LET items == AllItems(h, rooms)
    IN  SumSeq(Arr([i \in 1..Len(items) |-> ImplicitDemoOf(items[i])]))

IsMitigationJob(h, rooms, jobType) ==
    \/ jobType = "E"
    \/ \E it \in Range(AllItems(h, rooms)) : it.category = <<"W","T","R">>

RoomsWithContents(h, rooms) ==
    Cardinality({i \in 1..Len(rooms) :
        /\ ~Includes(ToUpperCase(h[rooms[i]].name), <<"G","E","N","E","R","A","L">>)
        /\ Len(h[rooms[i]].items) >= 3})

UniqueCats(h, rooms) ==
    {it.category : it \in Range(AllItems(h, rooms))}
    \ { <<"D","M","O">>, <<"C","L","N">>, <<"T","M","P">>, <<"L","A","B">>,
        <<"W","T","R">> }

RoomsWithEquip(h, rooms) ==
    Cardinality({i \in 1..Len(rooms) :
        \E it \in Range(h[rooms[i]].items) : IsEquipment(it)})

\* A variant that looks at the demolition total only
NeedsContainment_DemoOnly(totalDemoQty, severity, lossLower) == totalDemoQty > 0

\* RULE 5: const needsContainment
NeedsContainment(totalDemoQty, severity, lossLower) ==
    \/ totalDemoQty > 0
    \/ severity >= 5
    \/ Includes(lossLower, <<"m","o","l","d">>)
    \/ Includes(lossLower, <<"s","e","w","a","g","e">>)

\* A variant that leaves severity 9 out
IsCatastrophic_Above9(severity) == severity > 9

\* RULE 2: const isCatastrophic = severity >= 9
IsCatastrophic(severity) == severity >= 9

\* A variant that sends a total of exactly 500 to the dumpster branch
NeedsDumpster_From500(totalDemoQty) == totalDemoQty >= Q(500)

\* RULE 1: if (totalDemoQty > 500)
NeedsDumpster(totalDemoQty) == totalDemoQty > Q(500)

\* --- LOGIC RULES ---: every rule's item with the condition under which it
\* is pushed, in the order of the code.
LogisticsRules(h, rooms, j, existingCodes) ==
    LET implicitDemoQty == ImplicitDemoQty(h, rooms)
        totalDemoQty == ExplicitDemoQty(h, rooms) + implicitDemoQty
        isMitigationJob == IsMitigationJob(h, rooms, j.jobType)
        roomsWithContents == RoomsWithContents(h, rooms)
        lossLower == ToLowerCase(j.lossType)
        isFire == \/ Includes(lossLower, <<"f","i","r","e">>)
                  \/ Includes(lossLower, <<"s","m","o","k","e">>)
        isCatastrophic == IsCatastrophic(j.severity)
        uniqueCats == UniqueCats(h, rooms)
        needsContainment ==
            NeedsContainment(totalDemoQty, j.severity, lossLower)
        hasEquipment == \E it \in Range(AllItems(h, rooms)) : IsEquipment(it)
        workPerformed == totalDemoQty > 0 \/ isMitigationJob
        needsContentMove ==
            (isMitigationJob \/ implicitDemoQty > Q(100)) /\ roomsWithContents > 0
        absent(cat, sel) == Code(cat, sel) \notin existingCodes
        rule(on, cat, sel, desc, qty, unit) ==
            [on |-> on /\ absent(cat, sel), cat |-> cat, sel |-> sel,
             desc |-> desc, qty |-> qty, unit |-> unit]
    IN  << rule(NeedsDumpster(totalDemoQty),
                <<"D","M","O">>, <<"D","T","R","L","R">>,
                <<"Dumpster load - approx. 30 yards, inc. dump fees">>, Q(1), "EA"),
           rule(~NeedsDumpster(totalDemoQty) /\ totalDemoQty > 0,
                <<"D","M","O">>, <<"D","B","R">>,
                <<"Debris Removal - pickup or trailer load">>,
                Q(Max(1, CeilDiv(totalDemoQty, Q(150)))), "EA"),
           rule(isFire \/ isCatastrophic,
                <<"T","M","P">>, <<"T","L","T">>,
                <<"Portable toilet rental - per month">>, Q(1), "MO"),
           rule(Cardinality(uniqueCats) > 2,
                <<"L","A","B">>, <<"S","U","P">>,
                <<"Residential Supervision (", Cardinality(uniqueCats), " trades)">>,
                Q(Cardinality(uniqueCats) * 4), "HR"),
           rule(j.context = "Exterior" /\ j.severity > 7,
                <<"T","M","P">>, <<"F","N","C">>,
                <<"Temporary fencing - chain link">>, Q(100), "LF"),
           rule(needsContainment,
                <<"W","T","R">>, <<"B","A","R","R">>,
                <<"Containment Barrier - plastic">>, Q(150), "SF"),
           rule(needsContainment,
                <<"W","T","R">>, <<"N","A","F","A","N">>,
                <<"Negative air fan/scrubber">>, Q(3), "EA"),
           rule(hasEquipment,
                <<"W","T","R">>, <<"E","Q">>,
                <<"Equipment setup, take down, and monitoring">>,
                Max(Q(2), Q(2) + RoomsWithEquip(h, rooms)), "HR"),
           rule(j.jobType = "E",
                <<"W","T","R">>, <<"E","S","R","V","D">>,
                <<"Emergency service call - during business hours">>, Q(1), "EA"),
           rule(workPerformed,
                <<"D","M","O">>, <<"M","A","S","K","F","L">>,
                <<"Masking - floor - per square foot (Walkway)">>, Q(150), "SF"),
           rule(needsContentMove,
                <<"C","O","N">>, <<"R","O","O","M">>,
                <<"Content Manipulation - Average Room (Move & Reset)">>,
                Q(roomsWithContents), "EA") >>

\* A variant that replaces the room's items by the new ones
UpdatedItems_NewOnly(items, newItems) == newItems

\* [...generalRoom.items, ...newItems]
UpdatedItems(items, newItems) == items \o newItems

\* The returned list, the room objects after the call and the next unused
\* identifier.  The located General Conditions room is updated in place;
\* a created one is a new object put first.
enrichScopeWithLogistics(h, rooms, j, fresh) ==
    LET generalRoomIndex == FindGeneralIndex(h, rooms)
        create == generalRoomIndex = 0
        ref == IF create THEN Len(h) + 1 ELSE rooms[generalRoomIndex]
        h1 == IF create
              THEN Append(h, [id |-> fresh,
                              name |-> GeneralConditionsName,
                              timestamp_in |-> "", timestamp_out |-> "",
                              narrative_synthesis |-> GeneralConditionsNarrative,
                              flagged_issues |-> <<>>,
                              items |-> <<>>])
              ELSE h
        fresh1 == IF create THEN fresh + 1 ELSE fresh
        newRooms == IF create THEN <<ref>> \o rooms ELSE rooms
        existingCodes == {it.code : it \in Range(h1[ref].items)}
        fired == SelectSeq(LogisticsRules(h, rooms, j, existingCodes),
                           LAMBDA r : r.on)
        newItems == Arr([k \in 1..Len(fired) |->
                        createLogisticsItem(fresh1 + k - 1, fired[k].cat,
                                            fired[k].sel, fired[k].desc,
                                            fired[k].qty, fired[k].unit)])
    IN  [rooms |-> newRooms,
         heap |-> [h1 EXCEPT ![ref].items = UpdatedItems(@, newItems)],
         fresh |-> fresh1 + Len(fired)]

--------------------------------------------------------------------------
(* The state machine                                                       *)

NoItem == MkItem(0, <<>>, <<>>, "+", 0)

\* private readonly DELAY_MS = 4000
DELAY_MS == 4000

\* Date.now() when the limiter is constructed: any time at least DELAY_MS
\* after the epoch
StartTime == 100000

MaxTasks == 3

\* Milliseconds that pass before an enqueue call, while a task runs, and
\* between a timer falling due and its callback running
EnqueueGaps == {0, 1500}
TaskDurations == {1000, 5000}
TimerLateness == {0, 700}

NoOutcome == <<"pending">>

\* The limiter as constructed
LimiterIdle ==
    /\ queue = <<>>
    /\ isProcessing = FALSE
    /\ lastCallTime = 0
    /\ now = StartTime
    /\ loops = <<>>
    /\ nextTask = 1
    /\ started = <<>>
    /\ outcome = [t \in 1..MaxTasks |-> NoOutcome]
    /\ promise = [t \in 1..MaxTasks |-> NoOutcome]

ItemsUnused ==
    /\ item = NoItem
    /\ prevItem = NoItem
    /\ origItem = NoItem
    /\ nSan = 0
    /\ thrown = FALSE

RoomsUnused ==
    /\ heap = <<>>
    /\ cur = <<>>
    /\ job = NoJob
    /\ pc = "unused"
    /\ budget = 0
    /\ nextId = 100
    /\ generalRoom = NoRoom
    /\ mergedRooms = <<>>
    /\ didMerge = FALSE
    /\ passes = 0
    /\ mergeCount = 0
    /\ warnings = <<>>
    /\ argRefs = <<>>
    /\ heapAtCall = <<>>
    /\ mergeLog = <<>>
    /\ lineage = <<>>
    /\ ops = <<>>
    /\ outs = <<>>

\* The caller holds a list of at most maxRooms rooms drawn from pool and
\* may make `calls` calls.
InitRooms(pool, maxRooms, jobs, idModes, calls) ==
    /\ ItemsUnused
    /\ LimiterIdle
    /\ \E n \in 0..maxRooms : \E choice \in [1..n -> pool] : \E mode \in idModes :
          /\ heap = [p \in 1..n |-> MkRoom(choice[p], p, RoomId(mode, p))]
          /\ cur = [p \in 1..n |-> p]
    /\ job \in jobs
    /\ pc = "idle"
    /\ budget = calls
    /\ nextId = 100
    /\ generalRoom = NoRoom
    /\ mergedRooms = <<>>
    /\ didMerge = FALSE
    /\ passes = 0
    /\ mergeCount = 0
    /\ warnings = <<>>
    /\ argRefs = <<>>
    /\ heapAtCall = <<>>
    /\ mergeLog = <<>>
    /\ lineage = <<>>
    /\ ops = <<>>
    /\ outs = <<>>

\* The rooms of a list, by value
Snapshot(h, rooms) == Arr([i \in 1..Len(rooms) |-> h[rooms[i]]])

\* A variant that ignores the paired code
MissingPair_Ignore(codes, present, required) == present \in codes

\* codes.has(present) && !codes.has(required)
MissingPair(codes, present, required) ==
    present \in codes /\ required \notin codes

GermicideWarning ==
    "Audit Flag: Water Extraction present but Germicide (WTR GRD) is missing."

PadWarning ==
    "Audit Flag: Carpet replaced (FCC AV) but Pad (FCC PAD) is missing."

validateScopeGaps(items) ==
    LET codes == {Str(items[i].category) \o <<" ">> \o Str(items[i].selector) :
                     i \in 1..Len(items)}
    IN  (IF MissingPair(codes, <<"W","T","R"," ","E","X","T","W">>,
                               <<"W","T","R"," ","G","R","D">>)
         THEN <<GermicideWarning>> ELSE <<>>)
        \o (IF MissingPair(codes, <<"F","C","C"," ","A","V">>,
                                  <<"F","C","C"," ","P","A","D">>)
            THEN <<PadWarning>> ELSE <<>>)

\* The items a scope handed to the Gap Auditor is made of
GapItems ==
    { << <<"W","T","R">>, <<"E","X","T","W">>, "+", 120 >>,
      << <<"W","T","R">>, <<"G","R","D">>, "+", 120 >>,
      << <<"W","T","R">>, <<"E","X","T","W","-">>, "+", 120 >>,
      ItemCarpet, ItemPad, ItemPaint }

MaxGapItems == 3

\* The caller holds one list of at most MaxGapItems items.
InitGaps ==
    /\ ItemsUnused
    /\ LimiterIdle
    /\ \E n \in 0..MaxGapItems : \E choice \in [1..n -> GapItems] :
          heap = <<MkRoom(Tpl(<<"S","c","o","p","e">>, choice, <<>>, <<>>, ""),
                          1, 1)>>
    /\ cur = <<1>>
    /\ job = NoJob
    /\ pc = "scope"
    /\ budget = 0
    /\ nextId = 100
    /\ generalRoom = NoRoom
    /\ mergedRooms = <<>>
    /\ didMerge = FALSE
    /\ passes = 0
    /\ mergeCount = 0
    /\ warnings = <<>>
    /\ argRefs = <<>>
    /\ heapAtCall = <<>>
    /\ mergeLog = <<>>
    /\ lineage = <<>>
    /\ ops = <<>>
    /\ outs = <<>>

\* One validateScopeGaps call on the list held; it writes to nothing but
\* its own warnings array.
ValidateGaps ==
    /\ pc = "scope"
    /\ heapAtCall' = heap
    /\ warnings' = validateScopeGaps(heap[1].items)
    /\ pc' = "audited"
    /\ UNCHANGED <<heap, nextId, cur, job, budget, generalRoom, mergedRooms,
                   didMerge, passes, mergeCount, argRefs, mergeLog, lineage,
                   ops, outs, itemVars, limVars>>

InitItem ==
    /\ item \in RawItems
    /\ prevItem = item
    /\ origItem = item
    /\ nSan = 0
    /\ thrown = FALSE
    /\ RoomsUnused
    /\ LimiterIdle

\* One sanitizeLineItem call on the item held; a call that throws returns
\* nothing and leaves the item as it was.
Sanitize ==
    /\ nSan < MaxSanitize
    /\ prevItem' = item
    /\ IF sanitizeLineItemThrows(item)
       THEN item' = item /\ thrown' = TRUE
       ELSE item' = sanitizeLineItem(item) /\ thrown' = FALSE
    /\ nSan' = nSan + 1
    /\ UNCHANGED <<origItem, roomVars, limVars>>

\* sanitizeRooms on an empty list: the early return
SanitizeRoomsEmpty ==
    /\ pc = "idle" /\ budget > 0
    /\ Len(cur) = 0
    /\ budget' = budget - 1
    /\ argRefs' = cur
    /\ heapAtCall' = heap
    /\ mergeLog' = <<>>
    /\ lineage' = <<>>
    /\ generalRoom' = NoRoom
    /\ mergedRooms' = <<>>
    /\ didMerge' = FALSE
    /\ passes' = 0
    /\ mergeCount' = 0
    /\ warnings' = <<>>
    /\ cur' = <<>>
    /\ ops' = Append(ops, "sanitizeRooms")
    /\ outs' = Append(outs, <<>>)
    /\ UNCHANGED <<heap, job, pc, nextId, itemVars, limVars>>

\* sanitizeRooms, steps 1 and 2 and the loop's initialisation
SanitizeRoomsEnter ==
    /\ pc = "idle" /\ budget > 0
    /\ Len(cur) > 0
    /\ LET det == detectHallucinationPatterns(heap, cur)
           gen == FindGeneralRoom(heap, cur)
       IN  /\ heap' = det.heap
           /\ warnings' = det.warnings
           /\ generalRoom' = gen
           /\ mergedRooms' = SelectSeq(cur, LAMBDA r : r # gen)
    /\ budget' = budget - 1
    /\ argRefs' = cur
    /\ heapAtCall' = heap
    /\ mergeLog' = <<>>
    /\ lineage' = [r \in Range(cur) |-> r]
    /\ mergeCount' = 0
    /\ didMerge' = TRUE
    /\ passes' = 0
    /\ pc' = "loop"
    /\ UNCHANGED <<cur, job, nextId, ops, outs, itemVars, limVars>>

\* A variant of the while condition that stops after the first pass
LoopContinues_OnePass(merged, n) == merged /\ n < 1

\* The while condition
LoopContinues(merged, n) == merged /\ n < MAX_MERGE_PASSES

\* A variant of step 4 that puts the General Conditions room last
FinalRooms_GeneralLast(gen, merged) ==
    IF gen # NoRoom THEN Append(merged, gen) ELSE merged

\* Step 4: the General Conditions room first
FinalRooms(gen, merged) ==
    IF gen # NoRoom THEN <<gen>> \o merged ELSE merged

\* One pass of the while loop
MergePass ==
    /\ pc = "loop"
    /\ LoopContinues(didMerge, passes)
    /\ LET st == OuterLoop(mergedRooms, 1,
                    [heap |-> heap, fresh |-> nextId, current |-> NoRoom,
                     consumed |-> {}, newMerged |-> <<>>, warnings |-> warnings,
                     mergeCount |-> mergeCount, didMerge |-> FALSE,
                     log |-> mergeLog, lineage |-> lineage])
       IN  /\ heap' = st.heap
           /\ nextId' = st.fresh
           /\ mergedRooms' = st.newMerged
           /\ warnings' = st.warnings
           /\ mergeCount' = st.mergeCount
           /\ didMerge' = st.didMerge
           /\ mergeLog' = st.log
           /\ lineage' = st.lineage
    /\ passes' = passes + 1
    /\ UNCHANGED <<cur, job, pc, budget, generalRoom, argRefs, heapAtCall,
                   ops, outs, itemVars, limVars>>

\* sanitizeRooms, steps 4 and 5 and the return
SanitizeRoomsReturn ==
    /\ pc = "loop"
    /\ ~LoopContinues(didMerge, passes)
    /\ LET finalRooms == FinalRooms(generalRoom, mergedRooms)
       IN  /\ cur' = finalRooms
           /\ outs' = Append(outs, Snapshot(heap, finalRooms))
    /\ warnings' = IF mergeCount > 0
                   THEN <<[kind |-> "summary", n |-> mergeCount]>> \o warnings
                   ELSE warnings
    /\ ops' = Append(ops, "sanitizeRooms")
    /\ pc' = "idle"
    /\ UNCHANGED <<heap, job, budget, nextId, generalRoom, mergedRooms, didMerge,
                   passes, mergeCount, argRefs, heapAtCall, mergeLog, lineage,
                   itemVars, limVars>>

\* enrichScopeWithLogistics on the list the caller holds
Enrich ==
    /\ pc = "idle" /\ budget > 0
    /\ LET r == enrichScopeWithLogistics(heap, cur, job, nextId)
       IN  /\ heap' = r.heap
           /\ cur' = r.rooms
           /\ nextId' = r.fresh
           /\ outs' = Append(outs, Snapshot(r.heap, r.rooms))
    /\ budget' = budget - 1
    /\ argRefs' = cur
    /\ heapAtCall' = heap
    /\ ops' = Append(ops, "enrich")
    /\ UNCHANGED <<job, pc, generalRoom, mergedRooms, didMerge, passes,
                   mergeCount, warnings, mergeLog, lineage, itemVars, limVars>>

\* mergeRooms on the two rooms held
MergePair ==
    /\ pc = "pair"
    /\ LET m == mergeRooms(heap[1], heap[2], nextId)
       IN  /\ heap' = Append(heap, m.room)
           /\ nextId' = m.fresh
           /\ mergeLog' = <<[a |-> heap[1], b |-> heap[2], result |-> m.room]>>
    /\ pc' = "merged"
    /\ UNCHANGED <<cur, job, budget, generalRoom, mergedRooms, didMerge, passes,
                   mergeCount, warnings, argRefs, heapAtCall, lineage, ops, outs,
                   itemVars, limVars>>

\* calculateJaccardSimilarity and areLikelyDuplicates on the pair held, in
\* both orders of the arguments
Compare ==
    /\ pc = "pair"
    /\ mergeLog' =
          <<[a |-> heap[1], b |-> heap[2],
             simAB |-> calculateJaccardSimilarity(heap[1].items, heap[2].items),
             simBA |-> calculateJaccardSimilarity(heap[2].items, heap[1].items),
             dupAB |-> areLikelyDuplicates(heap[1], heap[2]),
             dupBA |-> areLikelyDuplicates(heap[2], heap[1])]>>
    /\ pc' = "compared"
    /\ UNCHANGED <<heap, nextId, cur, job, budget, generalRoom, mergedRooms,
                   didMerge, passes, mergeCount, warnings, argRefs, heapAtCall,
                   lineage, ops, outs, itemVars, limVars>>

InitMerge ==
    /\ ItemsUnused
    /\ LimiterIdle
    /\ \E a \in MergePool, b \in MergePool :
          heap = <<MkRoom(a, 1, 1), MkRoom(b, 2, 2)>>
    /\ cur = <<1, 2>>
    /\ job = NoJob
    /\ pc = "pair"
    /\ budget = 0
    /\ nextId = 100
    /\ generalRoom = NoRoom
    /\ mergedRooms = <<>>
    /\ didMerge = FALSE
    /\ passes = 0
    /\ mergeCount = 0
    /\ warnings = <<>>
    /\ argRefs = <<>>
    /\ heapAtCall = <<>>
    /\ mergeLog = <<>>
    /\ lineage = <<>>
    /\ ops = <<>>
    /\ outs = <<>>

InitDedup == InitRooms(DedupPool, MaxDedupRooms, {NoJob}, {"distinct", "shared"}, 1)

InitLog == InitRooms(LogPool, MaxLogRooms, LogJobs, {"distinct"}, MaxLogCalls)

InitDebris ==
    InitRooms(DebrisPool, MaxDebrisRooms, DebrisJobs, {"distinct"}, MaxDebrisCalls)

InitReview == InitRooms(ReviewPool, MaxReviewRooms, {NoJob}, {"distinct"}, 1)

InitPipe == InitRooms(PipePool, MaxPipeRooms, PipeJobs, {"distinct"}, MaxPipeCalls)

--------------------------------------------------------------------------
(* rateLimiter: enqueue and processQueue.  The code between two awaits    *)
(* runs without interleaving, so each action is one such stretch.          *)

\* A variant without the guard
AlreadyProcessing_Never(flag) == FALSE

\* if (this.isProcessing) return
AlreadyProcessing(flag) == flag

\* A variant that leaves the loop after one task
QueueHasWork_Never(q) == FALSE

\* while (this.queue.length > 0)
QueueHasWork(q) == Len(q) > 0

\* A variant that never waits
WaitNeeded_Never(timeSinceLastCall) == FALSE

\* if (timeSinceLastCall < this.DELAY_MS)
WaitNeeded(timeSinceLastCall) == timeSinceLastCall < DELAY_MS

RemoveAt(seq, i) == SubSeq(seq, 1, i - 1) \o SubSeq(seq, i + 1, Len(seq))

Waiting(wakeAt) == [pc |-> "waiting", wakeAt |-> wakeAt, task |-> 0]
Running(task) == [pc |-> "running", wakeAt |-> 0, task |-> task]

\* const item = this.queue.shift(); if (item) { this.lastCallTime =
\* Date.now(); await item.task() ...: loop i, with queue q at time t, up to
\* its next await.  An empty queue gives no item, and the loop ends at its
\* next test.
TakeItem(ls, i, q, t) ==
    IF q = <<>>
    THEN /\ loops' = RemoveAt(ls, i)
         /\ isProcessing' = FALSE
         /\ queue' = q
         /\ UNCHANGED <<lastCallTime, started>>
    ELSE /\ queue' = Tail(q)
         /\ lastCallTime' = t
         /\ started' = Append(started, [task |-> Head(q), at |-> t])
         /\ loops' = [ls EXCEPT ![i] = Running(Head(q))]
         /\ isProcessing' = TRUE

\* The while test and the body of the loop up to its next await, or
\* this.isProcessing = false
LoopTest(ls, i, q, t) ==
    IF ~QueueHasWork(q)
    THEN /\ loops' = RemoveAt(ls, i)
         /\ isProcessing' = FALSE
         /\ queue' = q
         /\ UNCHANGED <<lastCallTime, started>>
    ELSE IF WaitNeeded(t - lastCallTime)
    THEN /\ loops' = [ls EXCEPT ![i] =
                         Waiting(t + (DELAY_MS - (t - lastCallTime)))]
         /\ isProcessing' = TRUE
         /\ queue' = q
         /\ UNCHANGED <<lastCallTime, started>>
    ELSE TakeItem(ls, i, q, t)

\* enqueue(task): the push, and processQueue up to its return or first await
Enqueue ==
    /\ nextTask <= MaxTasks
    /\ \E gap \in EnqueueGaps :
          /\ now' = now + gap
          /\ IF AlreadyProcessing(isProcessing)
             THEN /\ queue' = Append(queue, nextTask)
                  /\ UNCHANGED <<isProcessing, lastCallTime, loops, started>>
             ELSE LoopTest(Append(loops, Waiting(0)), Len(loops) + 1,
                           Append(queue, nextTask), now + gap)
    /\ nextTask' = nextTask + 1
    /\ UNCHANGED <<outcome, promise, itemVars, roomVars>>

\* The setTimeout callback of a waiting loop runs, not before it is due
TimerFires ==
    \E i \in 1..Len(loops) : \E late \in TimerLateness :
        /\ loops[i].pc = "waiting"
        /\ now' = (IF now >= loops[i].wakeAt THEN now ELSE loops[i].wakeAt) + late
        /\ TakeItem(loops, i, queue, now')
        /\ UNCHANGED <<nextTask, outcome, promise, itemVars, roomVars>>

\* The promise of a running task settles: item.resolve(result) or
\* item.reject(error), then the loop goes on
TaskSettles ==
    \E i \in 1..Len(loops) : \E d \in TaskDurations :
    \E how \in {"fulfilled", "rejected"} :
        /\ loops[i].pc = "running"
        /\ now' = now + d
        /\ outcome' = [outcome EXCEPT ![loops[i].task] = <<how, loops[i].task>>]
        /\ promise' = [promise EXCEPT ![loops[i].task] =
                          IF how = "fulfilled"
                          THEN <<"fulfilled", loops[i].task>>
                          ELSE <<"rejected", loops[i].task>>]
        /\ LoopTest(loops, i, queue, now')
        /\ UNCHANGED <<nextTask, itemVars, roomVars>>

InitLimiter ==
    /\ ItemsUnused
    /\ RoomsUnused
    /\ LimiterIdle

NextLimiter ==
    \/ Enqueue
    \/ TimerFires
    \/ TaskSettles

NextItem == Sanitize

NextDedup ==
    \/ SanitizeRoomsEmpty
    \/ SanitizeRoomsEnter
    \/ MergePass
    \/ SanitizeRoomsReturn

NextLog == Enrich

NextPipe ==
    \/ SanitizeRoomsEmpty
    \/ SanitizeRoomsEnter
    \/ MergePass
    \/ SanitizeRoomsReturn
    \/ Enrich

NextMerge == MergePair

NextSim == Compare

NextGaps == ValidateGaps

\* The line-item sanitizer applied repeatedly to one item
SpecItem == InitItem /\ [][NextItem]_vars

\* One sanitizeRooms call on a raw room list
SpecDedup == InitDedup /\ [][NextDedup]_vars

\* enrichScopeWithLogistics applied repeatedly to a room list
SpecLog == InitLog /\ [][NextLog]_vars

\* sanitizeRooms and enrichScopeWithLogistics called in any order
SpecDebris == InitDebris /\ [][NextLog]_vars

SpecReview == InitReview /\ [][NextDedup]_vars

SpecPipe == InitPipe /\ [][NextPipe]_vars

\* mergeRooms on any two rooms
SpecMerge == InitMerge /\ [][NextMerge]_vars

SpecSim == InitMerge /\ [][NextSim]_vars

SpecGaps == InitGaps /\ [][NextGaps]_vars

SpecLimiter == InitLimiter /\ [][NextLimiter]_vars

\* Timers fire and every task's promise settles
SpecLimiterLive ==
    SpecLimiter /\ WF_vars(TimerFires) /\ WF_vars(TaskSettles)

Spec == SpecPipe

--------------------------------------------------------------------------
(* What a caller can observe of the calls made so far                      *)

\* A call has returned and no call is in progress
CallDone == pc = "idle" /\ ops # <<>>

LastOp == ops[Len(ops)]

LastOut == outs[Len(outs)]

\* The argument list of the last call, as it was when the call was made
LastIn == Snapshot(heapAtCall, argRefs)

\* The positions of the rooms named as a General Conditions container
GeneralAt(rooms) == {i \in 1..Len(rooms) : IsGeneralLower(rooms[i].name)}

Keys(room) == {MergeKey(it) : it \in Range(room.items)}

DistinctIds(rooms) ==
    \A i, k \in 1..Len(rooms) : i # k => rooms[i].id # rooms[k].id

NamesOf(rooms) == Arr([i \in 1..Len(rooms) |-> rooms[i].name])

--------------------------------------------------------------------------
(* Claims on the logistics engine                                          *)

\* C1: applying enrichScopeWithLogistics to its own output with the same
\* parameters returns the same rooms with the same items, and no code occurs
\* twice in the General Conditions room.
C1_LogisticsIdempotent ==
    \A k \in 1..(Len(ops) - 1) :
        (ops[k] = "enrich" /\ ops[k + 1] = "enrich") =>
            /\ outs[k + 1] = outs[k]
            /\ \A g \in GeneralAt(outs[k + 1]) :
                  \A a, b \in 1..Len(outs[k + 1][g].items) :
                      a # b => outs[k + 1][g].items[a].code
                               # outs[k + 1][g].items[b].code

--------------------------------------------------------------------------
(* Claims on the line-item sanitizer                                       *)

\* C2: sanitizeLineItem is idempotent: a second application leaves
\* category, selector, confidence and reasoning as the first left them, and
\* the "Auto-Downgraded" marker occurs at most once in reasoning.
C2_SanitizerIdempotent ==
    /\ nSan >= 2 =>
        /\ item.category = prevItem.category
        /\ item.selector = prevItem.selector
        /\ item.confidence = prevItem.confidence
        /\ item.reasoning = prevItem.reasoning
    /\ nSan >= 1 => CountOcc(item.reasoning, AutoDowngraded) <= 1

--------------------------------------------------------------------------
(* Claims on the deduplicator                                              *)

C4_NoRoomDropped ==
    (CallDone /\ LastOp = "sanitizeRooms" /\ DistinctIds(LastIn)) =>
        /\ Len(LastOut) - Cardinality(GeneralAt(LastOut))
              = Len(LastIn) - Cardinality(GeneralAt(LastIn)) - mergeCount
        /\ \A r \in Range(argRefs) :
              /\ lineage[r] \in Range(cur)
              /\ Keys(heapAtCall[r]) \subseteq Keys(heap[lineage[r]])

\* C5: no room whose name contains "general" or "logistics" is passed to a
\* merge, as the surviving room or as the absorbed one.
C5_GeneralNeverMerged ==
    \A k \in 1..Len(mergeLog) :
        /\ ~IsGeneralLower(mergeLog[k].a.name)
        /\ ~IsGeneralLower(mergeLog[k].b.name)

\* C8: two rooms merged by sanitizeRooms are of the same room-type bucket.
C8_BucketsNeverMixed ==
    \A k \in 1..Len(mergeLog) :
        extractRoomType(mergeLog[k].a.name) = extractRoomType(mergeLog[k].b.name)

\* A call that merged some rooms and returned two rooms of different buckets
\* whose items are similar enough to merge
C8_Witness ==
    /\ CallDone /\ LastOp = "sanitizeRooms" /\ mergeCount > 0
    /\ \E i, k \in 1..Len(LastOut) :
          /\ extractRoomType(LastOut[i].name) # extractRoomType(LastOut[k].name)
          /\ LastOut[i].items # <<>>
          /\ AtLeastThreshold(calculateJaccardSimilarity(LastOut[i].items,
                                                         LastOut[k].items))

\* The largest quantity among the items of A and B with the given key
MaxQuantity(key, a, b) ==
    LET qs == {it.quantity : it \in {x \in Range(a.items) \cup Range(b.items) :
                                         MergeKey(x) = key}}
    IN  CHOOSE q \in qs : \A o \in qs : o <= q

\* C9: the keys of mergeRooms(A, B) are the union of the keys of A and of B,
\* with one item per key, whose quantity is the maximum of the quantities of
\* the items with that key in A and B.
C9_MergeKeepsItems ==
    pc = "merged" =>
        LET e == mergeLog[1]
            items == e.result.items
        IN  /\ Keys(e.result) = Keys(e.a) \cup Keys(e.b)
            /\ \A i, k \in 1..Len(items) :
                  i # k => MergeKey(items[i]) # MergeKey(items[k])
            /\ \A i \in 1..Len(items) :
                  items[i].quantity = MaxQuantity(MergeKey(items[i]), e.a, e.b)

\* A merge where a key of the first room recurs in the second with a larger
\* quantity, and where each room has a key the other lacks
C9_Witness ==
    /\ pc = "merged"
    /\ LET e == mergeLog[1]
       IN  /\ \E x \in Range(e.a.items), y \in Range(e.b.items) :
                 /\ MergeKey(x) = MergeKey(y)
                 /\ extractRoomNumber(e.a.name) <= extractRoomNumber(e.b.name)
                 /\ x.quantity < y.quantity
           /\ Keys(e.a) \ Keys(e.b) # {}
           /\ Keys(e.b) \ Keys(e.a) # {}

--------------------------------------------------------------------------
(* Claims on the pipeline                                                  *)

\* C6: after sanitizeRooms followed by enrichScopeWithLogistics the room
\* list holds at most one room named as a General Conditions container.
C6_AtMostOneGeneral ==
    \A k \in 2..Len(ops) :
        (ops[k - 1] = "sanitizeRooms" /\ ops[k] = "enrich") =>
            Cardinality(GeneralAt(outs[k])) <= 1

\* C7, as stated: a list returned by sanitizeRooms or by
\* enrichScopeWithLogistics that holds a General Conditions room has one at
\* index 0.
C7_GeneralFirst_AsStated ==
    \A k \in 1..Len(outs) :
        GeneralAt(outs[k]) # {} => 1 \in GeneralAt(outs[k])

\* C7: a list returned by sanitizeRooms that holds a General Conditions
\* room has one at index 0; the list returned by enrichScopeWithLogistics
\* has one at index 0 when the input held none or held one at index 0, and
\* when the input held one, the rooms are in the order of the input.
C7_GeneralFirst ==
    CallDone =>
        /\ LastOp = "sanitizeRooms" =>
              (GeneralAt(LastOut) # {} => 1 \in GeneralAt(LastOut))
        /\ LastOp = "enrich" =>
              /\ (GeneralAt(LastIn) = {} \/ 1 \in GeneralAt(LastIn)) =>
                    1 \in GeneralAt(LastOut)
              /\ GeneralAt(LastIn) # {} => NamesOf(LastOut) = NamesOf(LastIn)
              /\ GeneralAt(LastIn) = {} =>
                    NamesOf(LastOut) = <<GeneralConditionsName>> \o NamesOf(LastIn)

\* sanitizeRooms found the General Conditions room after another room and
\* returned it first
C7_Witness ==
    /\ CallDone /\ LastOp = "sanitizeRooms"
    /\ GeneralAt(LastIn) # {} /\ 1 \notin GeneralAt(LastIn)
    /\ 1 \in GeneralAt(LastOut)

\* C10: after sanitizeRooms or enrichScopeWithLogistics every room object of
\* the caller's input list has the name, narrative_synthesis, flagged_issues
\* and items it had before the call.
C10_InputsUnmodified ==
    CallDone =>
        \A r \in Range(argRefs) :
            /\ heap[r].name = heapAtCall[r].name
            /\ heap[r].narrative_synthesis = heapAtCall[r].narrative_synthesis
            /\ heap[r].flagged_issues = heapAtCall[r].flagged_issues
            /\ heap[r].items = heapAtCall[r].items

--------------------------------------------------------------------------
(* Further claims on the logistics engine                                  *)

\* A sequence without its element at position g (g = 0: the sequence)
Without(seq, g) ==
    Arr([i \in 1..(Len(seq) - (IF g = 0 THEN 0 ELSE 1)) |->
            IF g = 0 \/ i < g THEN seq[i] ELSE seq[i + 1]])

\* The position of the first General Conditions room of a list, or 0
FirstGeneral(rooms) ==
    LET at == GeneralAt(rooms)
    IN  IF at = {} THEN 0 ELSE CHOOSE g \in at : \A o \in at : g <= o

\* The items of the General Conditions room of the last call's input
LastInGeneralItems ==
    LET in == LastIn
        g == FirstGeneral(in)
    IN  IF g = 0 THEN <<>> ELSE in[g].items

\* The General Conditions room of the last enrichScopeWithLogistics output
LastOutGeneral == LET out == LastOut IN out[FirstGeneral(out)]

\* The items the last enrichScopeWithLogistics call added
LastAdded ==
    LET items == LastOutGeneral.items
    IN  SubSeq(items, Len(LastInGeneralItems) + 1, Len(items))

EnrichDone == CallDone /\ LastOp = "enrich"

\* C11: enrichScopeWithLogistics changes only the General Conditions room:
\* the other rooms of the output are the input's rooms, equal and in the
\* same order, and the General Conditions items of the output are those of
\* the input, in order, followed by the new items.
C11_EnrichFrame ==
    EnrichDone =>
        LET in == LastIn
            out == LastOut
            gIn == FirstGeneral(in)
            gOut == FirstGeneral(out)
            inItems == IF gIn = 0 THEN <<>> ELSE in[gIn].items
        IN  /\ gOut # 0
            /\ Without(out, gOut) = Without(in, gIn)
            /\ Len(out[gOut].items) >= Len(inItems)
            /\ SubSeq(out[gOut].items, 1, Len(inItems)) = inItems
            /\ gIn # 0 =>
                  /\ gOut = gIn
                  /\ [out[gOut] EXCEPT !.items = inItems] = in[gIn]

\* A call that found a General Conditions room holding items after another
\* room and added items to it
C11_Witness ==
    /\ EnrichDone
    /\ FirstGeneral(LastIn) > 1
    /\ LastInGeneralItems # <<>>
    /\ LastAdded # <<>>

--------------------------------------------------------------------------
(* Further claims on the line-item sanitizer                               *)

\* A sanitizeLineItem call has returned an item
Sanitized == nSan >= 1 /\ ~thrown

\* C12: sanitizeLineItem never throws: an item with a missing category or
\* selector is given a result, not an exception.
C12_Totality == ~thrown

\* C13: after sanitizeLineItem the code field is "{category} {selector}" of
\* the sanitized category and selector.
C13_CodeRecomputed ==
    Sanitized => item.code = Code(item.category, item.selector)

AZ09 == UpperSet \cup Digits

\* C14: after sanitizeLineItem, category and selector consist only of
\* characters in [A-Z0-9].
C14_OnlyAZ09 ==
    Sanitized =>
        /\ \A i \in 1..Len(item.category) : item.category[i] \in AZ09
        /\ \A i \in 1..Len(item.selector) : item.selector[i] \in AZ09

\* An item whose category and selector both held other characters and
\* were cleaned to non-empty codes
C14_Witness ==
    /\ Sanitized /\ nSan = 1
    /\ origItem.category # Undefined
    /\ \E i \in 1..Len(origItem.category) : origItem.category[i] \notin AZ09
    /\ \E i \in 1..Len(origItem.selector) : origItem.selector[i] \notin AZ09
    /\ item.category # <<>> /\ item.selector # <<>>

\* The marker without the blank that separates it from the text before it
MarkerText(cat) == Tail(DowngradeMarker(cat))

\* C15, as stated: a category in the dictionary leaves the confidence as it
\* was; a category not in it gives confidence Low and a reasoning that is
\* the original reasoning followed by the marker.
C15_NoUpgrade_AsStated ==
    Sanitized =>
        IF item.category \in CAT_CODE_DICTIONARY
        THEN item.confidence = prevItem.confidence
        ELSE /\ item.confidence = "Low"
             /\ item.reasoning \in
                   { prevItem.reasoning \o MarkerText(item.category),
                     prevItem.reasoning \o DowngradeMarker(item.category) }

ConfidenceRank(c) == IF c = "Low" THEN 1 ELSE IF c = "Medium" THEN 2 ELSE 3

\* C15: the confidence is never raised; a category in the dictionary leaves
\* confidence and reasoning as they were; a category not in it gives
\* confidence Low, and the reasoning is the original with the marker
\* appended and the whole trimmed, or the original unchanged when it
\* already contains "Auto-Downgraded".
C15_NoUpgrade ==
    Sanitized =>
        /\ ConfidenceRank(item.confidence) <= ConfidenceRank(prevItem.confidence)
        /\ IF item.category \in CAT_CODE_DICTIONARY
           THEN /\ item.confidence = prevItem.confidence
                /\ item.reasoning = prevItem.reasoning
           ELSE /\ item.confidence = "Low"
                /\ item.reasoning =
                      IF Includes(prevItem.reasoning, AutoDowngraded)
                      THEN prevItem.reasoning
                      ELSE Trim(prevItem.reasoning
                                \o <<" ","(","A","u","t","o","-","D","o","w","n",
                                     "g","r","a","d","e","d",":"," ","C","o","d",
                                     "e"," ">>
                                \o item.category
                                \o <<" ","n","o","t"," ","i","n"," ","s","t","a",
                                     "n","d","a","r","d"," ","d","a","t","a","b",
                                     "a","s","e",")">>)

\* A High-confidence item with a reasoning and a category outside the
\* dictionary was downgraded and marked
C15_Witness ==
    /\ Sanitized /\ nSan = 1
    /\ item.category \notin CAT_CODE_DICTIONARY
    /\ origItem.confidence = "High"
    /\ origItem.reasoning = <<"w","e","t">>
    /\ item.confidence = "Low"
    /\ CountOcc(item.reasoning, AutoDowngraded) = 1

UNK == <<"U","N","K">>

\* C16: a category or selector that is empty, or empty once stripped of
\* the characters outside [A-Z0-9], is "UNK" after sanitizeLineItem.
C16_EmptyToUNK ==
    Sanitized =>
        /\ KeepAZ09(ToUpperCase(OrEmpty(prevItem.category))) = <<>> =>
              item.category = UNK
        /\ KeepAZ09(ToUpperCase(OrEmpty(prevItem.selector))) = <<>> =>
              item.selector = UNK

\* ------------------------------------------------------------------------
\* Further claims on the logistics rules
\* ------------------------------------------------------------------------

\* The demolition total, explicit plus implicit, of the rooms handed to the
\* last call, in half units
LastInDemoTotal ==
    LET items == AllItems(heapAtCall, argRefs)
    IN  SumSeq(Arr([i \in 1..Len(items) |->
            ExplicitDemoOf(items[i]) + ImplicitDemoOf(items[i])]))

LastInCodes == {it.code : it \in Range(LastInGeneralItems)}

\* The positions of the items with this code among those the last call added
AddedAt(cat, sel) ==
    LET added == LastAdded
    IN  {k \in 1..Len(added) :
            added[k].category = cat /\ added[k].selector = sel}

DMO == <<"D","M","O">>
DBR == <<"D","B","R">>
DTRLR == <<"D","T","R","L","R">>

\* The number of 150-unit loads that hold a total (in half units), at least 1
LoadsFor(total) ==
    CHOOSE n \in 1..(total + 1) :
        /\ n * 150 * 2 >= total
        /\ n = 1 \/ (n - 1) * 150 * 2 < total

C17_Witness501 ==
    /\ EnrichDone
    /\ LastInDemoTotal = Q(501)
    /\ AddedAt(DMO, DTRLR) # {} /\ AddedAt(DMO, DBR) = {}

TMP == <<"T","M","P">>
TLT == <<"T","L","T">>

\* The loss type of the job names fire or smoke, in any case of letters
FireOrSmoke ==
    \E w \in { <<"f","i","r","e">>, <<"s","m","o","k","e">> } :
        \E i \in 1..Len(job.lossType) :
            /\ i + Len(w) - 1 <= Len(job.lossType)
            /\ \A k \in 1..Len(w) :
                  ToLowerCase(<<job.lossType[i + k - 1]>>) = <<w[k]>>

\* C20: for any room list, the empty one included, a loss type naming fire
\* or smoke or a severity of 9 or more gives an output whose General
\* Conditions room holds a TMP TLT item, added with quantity 1 and unit
\* "MO" when it was not there; otherwise no TMP TLT item is added.
C20_PortableToilet ==
    EnrichDone =>
        LET out == LastOut
            gOut == FirstGeneral(out)
            added == LastAdded
            toilets == AddedAt(TMP, TLT)
        IN  /\ gOut # 0
            /\ IF FireOrSmoke \/ job.severity >= 9
               THEN /\ \E it \in Range(out[gOut].items) : it.code = Code(TMP, TLT)
                    /\ IF Code(TMP, TLT) \in LastInCodes
                       THEN toilets = {}
                       ELSE /\ Cardinality(toilets) = 1
                            /\ \A k \in toilets :
                                  /\ added[k].quantity = Q(1)
                                  /\ added[k].unit = "MO"
               ELSE toilets = {}

\* Severity 9, loss type "Fire", empty room list: the General Conditions
\* room was created with the toilet in it
C20_Witness ==
    /\ EnrichDone
    /\ LastIn = <<>>
    /\ job.severity = 9 /\ job.lossType = <<"F","i","r","e">>
    /\ Len(LastOut) = 1
    /\ \E k \in AddedAt(TMP, TLT) :
          LastAdded[k].quantity = Q(1) /\ LastAdded[k].unit = "MO"

\* Severity 9 alone, and smoke alone, each bring the toilet
C20_WitnessSeverity ==
    /\ EnrichDone /\ job.severity = 9 /\ ~FireOrSmoke /\ AddedAt(TMP, TLT) # {}

C20_WitnessSmoke ==
    /\ EnrichDone /\ job.severity = 4 /\ job.lossType = <<"S","M","O","K","E">>
    /\ AddedAt(TMP, TLT) # {}

\* A second call finds the toilet and adds none
C20_WitnessPresent ==
    /\ EnrichDone /\ FireOrSmoke
    /\ Code(TMP, TLT) \in LastInCodes /\ AddedAt(TMP, TLT) = {}

WTR == <<"W","T","R">>
ESRVD == <<"E","S","R","V","D">>

\* C18: when the job type is 'E' or some item of some room handed in has
\* category WTR, and WTR ESRVD is not in the General Conditions room, the
\* call adds exactly one WTR ESRVD item, of quantity 1.
C18_EmergencyCall ==
    EnrichDone =>
        ((/\ \/ job.jobType = "E"
             \/ \E it \in Range(AllItems(heapAtCall, argRefs)) : it.category = WTR
          /\ Code(WTR, ESRVD) \notin LastInCodes) =>
            /\ Cardinality(AddedAt(WTR, ESRVD)) = 1
            /\ \A k \in AddedAt(WTR, ESRVD) : LastAdded[k].quantity = Q(1))

\* The half of C18 that the rule keeps: an emergency job gets the item
C18_EmergencyJobOnly ==
    EnrichDone =>
        ((job.jobType = "E" /\ Code(WTR, ESRVD) \notin LastInCodes) =>
            /\ Cardinality(AddedAt(WTR, ESRVD)) = 1
            /\ \A k \in AddedAt(WTR, ESRVD) : LastAdded[k].quantity = Q(1))

\* The heap at the last call with the items of the General Conditions room
\* the engine located taken out
HeapWithoutGeneralItems ==
    LET g == FirstGeneral(LastIn)
    IN  IF g = 0 THEN heapAtCall
        ELSE [heapAtCall EXCEPT ![argRefs[g]].items = <<>>]

\* Code and quantity of the items the rules push for a heap, given the
\* codes already present
PushedFor(h, codes) ==
    LET fired == SelectSeq(LogisticsRules(h, argRefs, job, codes),
                           LAMBDA r : r.on)
    IN  Arr([k \in 1..Len(fired) |->
            <<Code(fired[k].cat, fired[k].sel), fired[k].qty>>])

\* C23: the items a call adds are those the rules give when the items of
\* the General Conditions room are left out of the demolition total, the
\* implicit demolition quantity, the mitigation test and the category
\* count, and count only as codes already present.
C23_GeneralItemsIgnored ==
    EnrichDone =>
        LET added == LastAdded
        IN  Arr([k \in 1..Len(added) |-> <<added[k].code, added[k].quantity>>])
               = PushedFor(HeapWithoutGeneralItems, LastInCodes)

CON == <<"C","O","N">>
ROOM == <<"R","O","O","M">>

\* The number of rooms of the last input with at least 3 items, the room
\* located as the General Conditions container not counted
ContentRooms ==
    LET in == LastIn
        g == FirstGeneral(in)
    IN  Cardinality({i \in 1..Len(in) : i # g /\ Len(in[i].items) >= 3})

\* C26: a call adds CON ROOM only when the count of rooms with at least 3
\* items, the General Conditions container left out, is above 0 and the
\* job is a mitigation job or the implicit demolition quantity is above
\* 100; its quantity is that count; and it is added whenever that holds
\* and CON ROOM is not present.
C26_ContentCount ==
    EnrichDone =>
        LET count == ContentRooms
            due == /\ count > 0
                   /\ \/ IsMitigationJob(heapAtCall, argRefs, job.jobType)
                      \/ ImplicitDemoQty(heapAtCall, argRefs) > Q(100)
            added == LastAdded
            moves == AddedAt(CON, ROOM)
        IN  /\ moves # {} => due
            /\ \A k \in moves : added[k].quantity = Q(count)
            /\ (due /\ Code(CON, ROOM) \notin LastInCodes) => Cardinality(moves) = 1

\* The same with the count the code makes: every room whose name does not
\* contain "GENERAL"
C26_CountByName ==
    EnrichDone =>
        LET in == LastIn
            count == Cardinality({i \in 1..Len(in) :
                        /\ ~Includes(ToUpperCase(in[i].name),
                                     <<"G","E","N","E","R","A","L">>)
                        /\ Len(in[i].items) >= 3})
            due == /\ count > 0
                   /\ \/ IsMitigationJob(heapAtCall, argRefs, job.jobType)
                      \/ ImplicitDemoQty(heapAtCall, argRefs) > Q(100)
            added == LastAdded
            moves == AddedAt(CON, ROOM)
        IN  /\ moves # {} => due
            /\ \A k \in moves : added[k].quantity = Q(count)
            /\ (due /\ Code(CON, ROOM) \notin LastInCodes) => Cardinality(moves) = 1

BARR == <<"B","A","R","R">>
NAFAN == <<"N","A","F","A","N">>

\* The loss type of the job names the word, in any case of letters
LossNames(w) ==
    \E i \in 1..Len(job.lossType) :
        /\ i + Len(w) - 1 <= Len(job.lossType)
        /\ \A k \in 1..Len(w) :
              ToLowerCase(<<job.lossType[i + k - 1]>>) = <<w[k]>>

\* C27: when the demolition total is above 0, or the severity is 5 or
\* more, or the loss type names mold or sewage, the General Conditions room
\* returned holds both WTR BARR and WTR NAFAN; and a call that adds one of
\* the two returns a room that holds the other.
C27_ContainmentPair ==
    EnrichDone =>
        LET outCodes == {it.code : it \in Range(LastOutGeneral.items)}
            both == Code(WTR, BARR) \in outCodes /\ Code(WTR, NAFAN) \in outCodes
        IN  /\ (\/ LastInDemoTotal > 0
                \/ job.severity >= 5
                \/ LossNames(<<"m","o","l","d">>)
                \/ LossNames(<<"s","e","w","a","g","e">>)) => both
            /\ (AddedAt(WTR, BARR) # {} \/ AddedAt(WTR, NAFAN) # {}) => both

\* Only the barrier was there before a call on a severity-5 job without
\* demolition, and the call added the fan alone
C27_Witness ==
    /\ EnrichDone
    /\ Code(WTR, BARR) \in LastInCodes /\ Code(WTR, NAFAN) \notin LastInCodes
    /\ job.severity = 5 /\ LastInDemoTotal = 0
    /\ AddedAt(WTR, NAFAN) # {} /\ AddedAt(WTR, BARR) = {}

\* Mold alone, and sewage alone, bring the pair
C27_WitnessMold ==
    /\ EnrichDone /\ job.severity = 4 /\ LastInDemoTotal = 0
    /\ LossNames(<<"m","o","l","d">>)
    /\ AddedAt(WTR, NAFAN) # {} /\ AddedAt(WTR, BARR) # {}

C27_WitnessSewage ==
    /\ EnrichDone /\ job.severity = 4 /\ LastInDemoTotal = 0
    /\ LossNames(<<"s","e","w","a","g","e">>)
    /\ AddedAt(WTR, NAFAN) # {} /\ AddedAt(WTR, BARR) # {}

\* No condition holds and nothing of the pair is added
C27_WitnessNone ==
    /\ EnrichDone /\ LastIn # <<>>
    /\ AddedAt(WTR, NAFAN) = {} /\ AddedAt(WTR, BARR) = {}
    /\ Code(WTR, BARR) \notin LastInCodes

\* ------------------------------------------------------------------------
\* Further claims on the room merge
\* ------------------------------------------------------------------------

\* The last number in a name, 999 when the name has none
TrailingNumber(name) ==
    LET at == {i \in 1..Len(name) : name[i] \in Digits}
        last == CHOOSE i \in at : \A m \in at : m <= i
        start == CHOOSE i \in 1..last :
                    /\ \A m \in i..last : name[m] \in Digits
                    /\ i = 1 \/ name[i - 1] \notin Digits
    IN  IF at = {} THEN NO_ROOM_NUMBER
        ELSE ParseDigits(SubSeq(name, start, last), 0)

\* C19: the merged room has the id and the name of the room whose name
\* carries the lower trailing number (999 when it has none), and of one of
\* the two when the numbers are equal.
C19_LowerNumberSurvives ==
    pc = "merged" =>
        LET e == mergeLog[1]
            na == TrailingNumber(e.a.name)
            nb == TrailingNumber(e.b.name)
            keeps(r) == e.result.id = r.id /\ e.result.name = r.name
        IN  /\ na < nb => keeps(e.a)
            /\ nb < na => keeps(e.b)
            /\ keeps(e.a) \/ keeps(e.b)

Bathroom2 == <<"B","a","t","h","r","o","o","m"," ","2">>
Bathroom3 == <<"B","a","t","h","r","o","o","m"," ","3">>

\* The scenario of C19: sanitizeRooms on "Bathroom 2" and "Bathroom 3", in
\* either order, returns one room, named "Bathroom 2".
C19_BathroomScenario ==
    (CallDone /\ LastOp = "sanitizeRooms"
     /\ NamesOf(LastIn) \in {<<Bathroom2, Bathroom3>>, <<Bathroom3, Bathroom2>>}) =>
        NamesOf(LastOut) = <<Bathroom2>>

C19_ScenarioReached ==
    /\ CallDone /\ LastOp = "sanitizeRooms"
    /\ NamesOf(LastIn) = <<Bathroom3, Bathroom2>>

\* ------------------------------------------------------------------------
\* Further claims on the room sanitizer
\* ------------------------------------------------------------------------

\* C21: calculateJaccardSimilarity gives the same value for (A, B) and for
\* (B, A), empty lists included, and so does areLikelyDuplicates.
C21_SimilaritySymmetric ==
    pc = "compared" =>
        /\ mergeLog[1].simAB = mergeLog[1].simBA
        /\ mergeLog[1].dupAB = mergeLog[1].dupBA

\* Two lists of different signature sets, partly shared, were compared
C21_Witness ==
    /\ pc = "compared"
    /\ mergeLog[1].simAB[1] > 0
    /\ mergeLog[1].simAB[1] < mergeLog[1].simAB[2]
    /\ Len(mergeLog[1].a.items) # Len(mergeLog[1].b.items)

\* An empty list was compared with a non-empty one, and two rooms were
\* found duplicates
C21_WitnessEmpty ==
    /\ pc = "compared"
    /\ mergeLog[1].a.items = <<>> /\ mergeLog[1].b.items # <<>>

C21_WitnessDuplicates ==
    /\ pc = "compared" /\ mergeLog[1].dupAB
    /\ mergeLog[1].a.name # mergeLog[1].b.name

\* ------------------------------------------------------------------------
\* Claims on the Gap Auditor
\* ------------------------------------------------------------------------

\* The category-selector pairs of the audited list
AuditedPairs ==
    {<<heapAtCall[1].items[i].category, heapAtCall[1].items[i].selector>> :
        i \in 1..Len(heapAtCall[1].items)}

ExtractionUnpaired ==
    /\ << <<"W","T","R">>, <<"E","X","T","W">> >> \in AuditedPairs
    /\ << <<"W","T","R">>, <<"G","R","D">> >> \notin AuditedPairs

CarpetUnpaired ==
    /\ << <<"F","C","C">>, <<"A","V">> >> \in AuditedPairs
    /\ << <<"F","C","C">>, <<"P","A","D">> >> \notin AuditedPairs

\* C22: validateScopeGaps returns one warning for WTR EXTW without WTR GRD,
\* one for FCC AV without FCC PAD, and nothing else, and leaves the item
\* list as it was.
C22_GapAuditor ==
    pc = "audited" =>
        /\ warnings = (IF ExtractionUnpaired THEN <<GermicideWarning>> ELSE <<>>)
                       \o (IF CarpetUnpaired THEN <<PadWarning>> ELSE <<>>)
        /\ Len(warnings) = (IF ExtractionUnpaired THEN 1 ELSE 0)
                           + (IF CarpetUnpaired THEN 1 ELSE 0)
        /\ heap = heapAtCall

\* A scope with WTR EXTW, no WTR GRD and a paired FCC AV got exactly the
\* germicide warning
C22_Witness ==
    /\ pc = "audited"
    /\ ExtractionUnpaired
    /\ << <<"F","C","C">>, <<"A","V">> >> \in AuditedPairs
    /\ ~CarpetUnpaired
    /\ warnings = <<GermicideWarning>>

\* Both rules violated, and both satisfied
C22_WitnessBoth == pc = "audited" /\ Len(warnings) = 2

C22_WitnessPaired ==
    /\ pc = "audited" /\ warnings = <<>>
    /\ << <<"W","T","R">>, <<"E","X","T","W">> >> \in AuditedPairs

SanitizeDone == CallDone /\ LastOp = "sanitizeRooms"

\* C24: two rooms that the diagnostics of a sanitizeRooms call flag as
\* similar but not duplicates (similarity strictly between 0.6 and 0.75)
\* are not in one room of that call's output.
C24_ReviewPairsNotMerged ==
    SanitizeDone =>
        \A k \in 1..Len(warnings) :
            warnings[k].kind = "similar" =>
                lineage[warnings[k].aRef] # lineage[warnings[k].bRef]

\* The part of C24 that holds: a flagged pair is never handed to mergeRooms
\* as it was flagged
C24_NotMergedDirectly ==
    SanitizeDone =>
        \A k \in 1..Len(warnings) : \A m \in 1..Len(mergeLog) :
            warnings[k].kind = "similar" =>
                {mergeLog[m].a, mergeLog[m].b}
                    # {heapAtCall[warnings[k].aRef], heapAtCall[warnings[k].bRef]}

C24_Flagged ==
    /\ SanitizeDone /\ mergeCount = 0
    /\ \E k \in 1..Len(warnings) : warnings[k].kind = "similar"

\* C25: every item of the merged room has the id that an item of the same
\* category:selector key had in one of the two rooms before the merge.
C25_ItemIdsStable ==
    pc = "merged" =>
        \A it \in Range(mergeLog[1].result.items) :
            \E x \in Range(mergeLog[1].a.items) \cup Range(mergeLog[1].b.items) :
                MergeKey(x) = MergeKey(it) /\ x.id = it.id

\* What the merge does instead: no item of the merged room has an id of
\* an item of the two rooms
C25_AllIdsNew ==
    pc = "merged" =>
        \A it \in Range(mergeLog[1].result.items) :
            \A x \in Range(mergeLog[1].a.items) \cup Range(mergeLog[1].b.items) :
                x.id # it.id

\* ------------------------------------------------------------------------
\* Claims on the rate limiter
\* ------------------------------------------------------------------------

Executing == {i \in 1..Len(loops) : loops[i].pc = "running"}

\* C28: at most one drain loop is active, at most one task is executing,
\* and the tasks start in the order in which they were enqueued.
C28_Serialized ==
    /\ Len(loops) <= 1
    /\ Cardinality(Executing) <= 1
    /\ \A k \in 1..Len(started) : started[k].task = k
    /\ isProcessing <=> loops # <<>>

\* A task was enqueued while another was running, a second while the loop
\* was waiting, and all three started
C28_Witness ==
    /\ Len(started) = 3
    /\ started[2].at > started[1].at
    /\ loops # <<>> /\ queue = <<>>

C28_WitnessQueuedWhileRunning ==
    /\ Executing # {} /\ Len(queue) = 2

C28_WitnessQueuedWhileWaiting ==
    /\ \E i \in 1..Len(loops) : loops[i].pc = "waiting"
    /\ Len(queue) = 2

\* C29: the start times of two tasks started one after the other are at
\* least DELAY_MS apart.
C29_Pacing ==
    \A k \in 1..(Len(started) - 1) :
        started[k + 1].at - started[k].at >= DELAY_MS

\* The queue drained, a task was enqueued later, and it started exactly
\* DELAY_MS after the one before
C29_Witness ==
    /\ Len(started) >= 2
    /\ outcome[1] # NoOutcome
    /\ \E k \in 1..(Len(started) - 1) :
          /\ started[k + 1].at - started[k].at = DELAY_MS
          /\ outcome[started[k].task] # NoOutcome

\* A task that started without a wait, more than DELAY_MS after the last
C29_WitnessNoWait ==
    \E k \in 1..(Len(started) - 1) : started[k + 1].at - started[k].at > 5000

\* C30: every enqueued task is in the end started, and its enqueue promise
\* settles as the task's own promise did; a rejection settles the promise
\* of that task alone; no task stays in the queue for ever.
C30_Liveness ==
    /\ \A t \in 1..MaxTasks :
          (nextTask > t) ~> (/\ \E k \in 1..Len(started) : started[k].task = t
                             /\ promise[t] # NoOutcome)
    /\ [](\A t \in 1..MaxTasks :
            /\ promise[t] = outcome[t]
            /\ promise[t] # NoOutcome => promise[t][2] = t)
    /\ [](nextTask > MaxTasks => <>(queue = <<>> /\ loops = <<>>))

\* The first task was rejected and the later ones were fulfilled
C30_Witness ==
    /\ promise[1] = <<"rejected", 1>>
    /\ \A t \in 2..MaxTasks : promise[t] = <<"fulfilled", t>>
    /\ queue = <<>> /\ loops = <<>> /\ ~isProcessing

==========================================================================
